---- MODULE Spec2Model ----
(***************************************************************************)
(* Verification model of the clash-web subscription merge pipeline         *)
(* (scripts/merge.py) and of the merge-job launcher of the management API  *)
(* (scripts/api_server.py, scripts/api/services/merge_service.py).         *)
(*                                                                         *)
(* The module holds several specifications over one set of variables:      *)
(*   SpecRules    rule-list merges (place_rules_before_match)              *)
(*   SpecDedup    the fetch loop and the Deduplicator                      *)
(*   SpecOverride the OverrideLayer applied once and twice                 *)
(*   SpecPipeline one run of merge_subscriptions, stage by stage, with the *)
(*                files it reads and writes                                *)
(*   SpecSystem   the merge-job launcher of the API: manual and scheduled  *)
(*                triggers, runner threads, direct runs of merge.py        *)
(* Variables a specification does not use keep their initial value.        *)
(***************************************************************************)
EXTENDS Integers, Sequences, FiniteSets, TLC

VARIABLES
  rules,        \* rule list of the document being composed
  rulesBase,    \* the rule list before the latest rule merge
  rulesNew,     \* the rule list injected by the latest rule merge
  rulesStage,   \* "template" | "policy" | "override"
  fetched,      \* per subscription, in declaration order, its fetched node list
  subIndex,     \* number of subscriptions the fetch loop has gone through
  merged_proxies, \* merge_subscriptions' merged_proxies
  deduped,      \* merge_subscriptions' deduped
  dedupedAgain, \* deduplicate_proxies(deduped)
  dedupStage,   \* "fetch" | "done" | "again"
  failedSubs,   \* indices of the subscriptions this run has logged as failed
  fetchedSubs,  \* indices of the subscriptions whose fetch_subscription returned
  docBase,      \* the document an override document is merged into
  docOverride,  \* the override document
  docOnce,      \* deep_merge_config(docBase, docOverride)
  docTwice,     \* deep_merge_config(docOnce, docOverride)
  mergeStage,   \* "base" | "once" | "twice"
  environ,      \* os.environ of the merge process: variable -> value
  templateFile, \* content of template.yaml, Absent when there is no file
  sitePolicyFile, \* content of site_policy.yaml
  overrideFile, \* content of override.yaml
  scriptFile,   \* text of override.js
  scriptRun,    \* what the node subprocess does with override.js
  document,     \* merge_subscriptions' config
  pc,           \* the stage merge_subscriptions is about to run
  configFile,   \* content of config.yaml
  previousFile, \* content of config.yaml when the run began
  backups,      \* contents of the files of the backup directory
  error,        \* message of the exception that ended the run, "" if none
  firstDocument, \* what the previous run over the same inputs wrote, Absent if none
  firstFailed,  \* indices of the subscriptions whose fetch failed in that run
  merge_lock,   \* TRUE while merge_lock is held
  triggers,     \* the merge triggers handled so far, in order of arrival
  jobs,         \* trigger index -> state of the runner thread it started
  direct,       \* number of running merge.py processes nobody's runner started
  history,      \* items of schedule_history.json
  schedule,     \* content of schedule.json
  scheduler,    \* the scheduler thread: its position and its copy of the schedule
  committed     \* what the PUT /api/schedule requests saved, in order

ruleVars == <<rules, rulesBase, rulesNew, rulesStage>>
dedupVars ==
  <<fetched, subIndex, merged_proxies, deduped, dedupedAgain, dedupStage, failedSubs,
    fetchedSubs>>
overrideVars == <<docBase, docOverride, docOnce, docTwice, mergeStage>>
pipelineVars ==
  <<environ, templateFile, sitePolicyFile, overrideFile, scriptFile, scriptRun,
    document, pc, configFile, previousFile, backups, error, firstDocument,
    firstFailed>>
systemVars ==
  <<merge_lock, triggers, jobs, direct, history, schedule, scheduler, committed>>
vars == <<ruleVars, dedupVars, overrideVars, pipelineVars, systemVars>>

\* The variables a specification leaves alone.
exceptRules == <<dedupVars, overrideVars, pipelineVars, systemVars>>
exceptDedup == <<ruleVars, overrideVars, pipelineVars, systemVars>>
exceptOverride == <<ruleVars, dedupVars, pipelineVars, systemVars>>
exceptPipeline == <<ruleVars, overrideVars, systemVars>>
exceptSystem == <<ruleVars, dedupVars, overrideVars, pipelineVars>>

RulesIdle ==
  /\ rules = <<>> /\ rulesBase = <<>> /\ rulesNew = <<>> /\ rulesStage = "off"

DedupIdle ==
  /\ fetched = <<>> /\ subIndex = 0 /\ merged_proxies = <<>>
  /\ deduped = <<>> /\ dedupedAgain = <<>> /\ dedupStage = "off" /\ failedSubs = {}
  /\ fetchedSubs = {}

OverrideIdle ==
  /\ docBase = <<>> /\ docOverride = <<>> /\ docOnce = <<>> /\ docTwice = <<>>
  /\ mergeStage = "off"

PipelineIdle ==
  /\ environ = <<>> /\ templateFile = <<>> /\ sitePolicyFile = <<>>
  /\ overrideFile = <<>> /\ scriptFile = "" /\ scriptRun = "none"
  /\ document = <<>> /\ pc = "off" /\ configFile = <<>> /\ previousFile = <<>>
  /\ backups = <<>> /\ error = "" /\ firstDocument = <<>> /\ firstFailed = {}

SystemIdle ==
  /\ merge_lock = FALSE /\ triggers = <<>> /\ jobs = <<>> /\ direct = 0
  /\ history = <<>> /\ schedule = <<>> /\ scheduler = <<>> /\ committed = <<>>

(***************************************************************************)
(* Python values.  A YAML/JSON value is a record [k, s, n, l, d]: k is the *)
(* Python type, s the text of a str, n the number of an int or bool, l the *)
(* items of a list, d the key -> value function of a dict.  "absent" is    *)
(* what reading a key missing from a dict gives.                           *)
(***************************************************************************)
StrV(x) == [k |-> "str", s |-> x, n |-> 0, l |-> <<>>, d |-> <<>>]
IntV(x) == [k |-> "int", s |-> "", n |-> x, l |-> <<>>, d |-> <<>>]
BoolV(b) == [k |-> "bool", s |-> "", n |-> IF b THEN 1 ELSE 0, l |-> <<>>, d |-> <<>>]
ListV(x) == [k |-> "list", s |-> "", n |-> 0, l |-> x, d |-> <<>>]
DictV(f) == [k |-> "dict", s |-> "", n |-> 0, l |-> <<>>, d |-> f]
NoneV == [k |-> "none", s |-> "", n |-> 0, l |-> <<>>, d |-> <<>>]
Absent == [k |-> "absent", s |-> "", n |-> 0, l |-> <<>>, d |-> <<>>]

is_list(v) == v.k = "list"

is_dict(v) == v.k = "dict"

\* mapping[key], Absent when the key is missing.
dget(mapping, key) == IF key \in DOMAIN mapping.d THEN mapping.d[key] ELSE Absent

\* mapping[key] = value
dset(mapping, key, value) == [mapping EXCEPT !.d = (key :> value) @@ mapping.d]

\* mapping.pop(key, None)
dpop(mapping, key) ==
  [mapping EXCEPT !.d = [x \in (DOMAIN mapping.d) \ {key} |-> mapping.d[x]]]

\* dict.get(key, default) on the value v read under the key.
get(v, default) == IF v.k = "absent" THEN default ELSE v

\* bool(v): Python truthiness.
truthy(v) ==
  CASE v.k = "str" -> v.s # ""
    [] v.k = "int" -> v.n # 0
    [] v.k = "bool" -> v.n # 0
    [] v.k = "list" -> v.l # <<>>
    [] v.k = "dict" -> DOMAIN v.d # {}
    [] OTHER -> FALSE

\* str(v) of a scalar.
py_str(v) ==
  CASE v.k = "str" -> v.s
    [] v.k = "int" -> ToString(v.n)
    [] v.k = "bool" -> IF v.n # 0 THEN "True" ELSE "False"
    [] v.k = "none" -> "None"

RECURSIVE lstrip(_)
lstrip(s) ==
  IF Len(s) > 0 /\ SubSeq(s, 1, 1) = " " THEN lstrip(SubSeq(s, 2, Len(s))) ELSE s

RECURSIVE rstrip(_)
rstrip(s) ==
  IF Len(s) > 0 /\ SubSeq(s, Len(s), Len(s)) = " "
  THEN rstrip(SubSeq(s, 1, Len(s) - 1)) ELSE s

\* str.strip()
strip(s) == rstrip(lstrip(s))

\* str.startswith(p)
startswith(s, p) == Len(s) >= Len(p) /\ SubSeq(s, 1, Len(p)) = p

RECURSIVE unique_loop(_, _, _)
unique_loop(items, seen, result) ==
  IF items = <<>> THEN result
  ELSE IF Head(items) \in seen THEN unique_loop(Tail(items), seen, result)
  ELSE unique_loop(Tail(items), seen \cup {Head(items)}, Append(result, Head(items)))

\* unique_items: first occurrence of every item, in order.
unique_items(items) == unique_loop(items, {}, <<>>)

(***************************************************************************)
(* Rule lists.  An item of a rule list is a value; the code keeps the      *)
(* non-blank strings.                                                      *)
(***************************************************************************)
is_rule(r) == r.k = "str" /\ strip(r.s) # ""

is_match(r) == startswith(r.s, "MATCH,")

\* Mutant: the new rules go between the existing rules and the terminal ones.
place_rules_after_existing(existing, new_rules) ==
  LET existing_clean == SelectSeq(existing, is_rule)
      new_clean == SelectSeq(new_rules, is_rule)
      match_rules == SelectSeq(existing_clean, is_match)
      non_match_rules == SelectSeq(existing_clean, LAMBDA r : ~is_match(r))
  IN unique_items(non_match_rules \o new_clean \o match_rules)

place_rules_before_match(existing, new_rules) ==
  LET existing_clean == SelectSeq(existing, is_rule)
      new_clean == SelectSeq(new_rules, is_rule)
      match_rules == SelectSeq(existing_clean, is_match)
      non_match_rules == SelectSeq(existing_clean, LAMBDA r : ~is_match(r))
  IN unique_items(new_clean \o non_match_rules \o match_rules)

(***************************************************************************)
(* SpecRules: the rule list of the template goes through the rule merge of *)
(* the PolicyLayer and then through the rule merge of the OverrideLayer.   *)
(***************************************************************************)
MaxRules == 2

RuleUniverse ==
  { StrV("MATCH,PROXY"), StrV("MATCH,DIRECT"), StrV("DOMAIN,a.com,DIRECT"),
    StrV(" "), IntV(7) }

SeqsUpTo(S, n) == UNION { [1..m -> S] : m \in 0..n }

RuleLists == SeqsUpTo(RuleUniverse, MaxRules)

InitRules ==
  /\ rules \in RuleLists
  /\ rulesBase = <<>>
  /\ rulesNew = <<>>
  /\ rulesStage = "template"
  /\ DedupIdle /\ OverrideIdle /\ PipelineIdle /\ SystemIdle

\* apply_site_policy, rules part: site_policy["rules"] is a list.
PolicyRules ==
  /\ rulesStage = "template"
  /\ \E incoming \in RuleLists :
       /\ rulesBase' = rules
       /\ rulesNew' = incoming
       /\ rules' = place_rules_before_match(rules, incoming)
  /\ rulesStage' = "policy"
  /\ UNCHANGED exceptRules

\* deep_merge_config, key "rules": override["rules"] is a list.
OverrideRules ==
  /\ rulesStage = "policy"
  /\ \E incoming \in RuleLists :
       /\ rulesBase' = rules
       /\ rulesNew' = incoming
       /\ rules' = place_rules_before_match(rules, incoming)
  /\ rulesStage' = "override"
  /\ UNCHANGED exceptRules

NextRules == PolicyRules \/ OverrideRules

SpecRules == InitRules /\ [][NextRules]_vars

(***************************************************************************)
(* Claims about rule merges.                                               *)
(***************************************************************************)
RECURSIVE TerminalSuffix(_)
\* The terminal rules that end a rule list: its longest suffix of MATCH rules.
TerminalSuffix(list) ==
  IF list # <<>> /\ is_match(list[Len(list)])
  THEN Append(TerminalSuffix(SubSeq(list, 1, Len(list) - 1)), list[Len(list)])
  ELSE <<>>

IsSuffix(sfx, list) ==
  /\ Len(sfx) <= Len(list)
  /\ SubSeq(list, Len(list) - Len(sfx) + 1, Len(list)) = sfx

\* C4 (rule terminal invariant): after each rule merge, the terminal MATCH
\* rule(s) that ended the pre-merge rule list still end the merged list.
C4_RuleTerminalInvariant ==
  rulesStage \in {"policy", "override"} =>
    IsSuffix(TerminalSuffix(SelectSeq(rulesBase, is_rule)), rules)

(***************************************************************************)
(* Proxy nodes.  A node is a dict; the pipeline reads its name and the     *)
(* eight identity keys of the fingerprint.                                 *)
(***************************************************************************)
FingerprintKeys ==
  <<"type", "server", "port", "uuid", "password", "cipher", "network", "plugin">>

RECURSIVE join(_, _)
\* sep.join(parts)
join(sep, parts) ==
  IF parts = <<>> THEN ""
  ELSE IF Len(parts) = 1 THEN parts[1]
  ELSE parts[1] \o sep \o join(sep, Tail(parts))

\* Mutant: the fingerprint also covers the node name.
proxy_fingerprint_with_name(proxy) ==
  join("|", [i \in 1..Len(FingerprintKeys) + 1 |->
               IF i = 1 THEN py_str(get(dget(proxy, "name"), StrV("")))
               ELSE py_str(get(dget(proxy, FingerprintKeys[i - 1]), StrV("")))])

proxy_fingerprint(proxy) ==
  join("|", [i \in 1..Len(FingerprintKeys) |->
               py_str(get(dget(proxy, FingerprintKeys[i]), StrV("")))])

\* Mutant: the first candidate is taken without looking it up in used.
name_candidate_unchecked(name, count, used) ==
  <<name \o "_" \o ToString(count), count + 1>>

RECURSIVE name_candidate(_, _, _)
\* The while loop of ensure_unique_proxy_names: <<candidate, count>> on break.
name_candidate(name, count, used) ==
  LET candidate == name \o "_" \o ToString(count)
  IN IF candidate \notin DOMAIN used
     THEN <<candidate, count + 1>>
     ELSE name_candidate(name, count + 1, used)

RECURSIVE unique_names_loop(_, _, _)
unique_names_loop(proxies, used, result) ==
  IF proxies = <<>> THEN result
  ELSE
    LET proxy == Head(proxies)
        given == dget(proxy, "name")
        name == strip(py_str(IF truthy(given) THEN given ELSE StrV("node")))
    IN IF name \notin DOMAIN used
       THEN unique_names_loop(Tail(proxies), (name :> 1) @@ used,
                              Append(result, dset(proxy, "name", StrV(name))))
       ELSE
         LET found == name_candidate(name, used[name], used)
         IN unique_names_loop(
              Tail(proxies),
              (found[1] :> 1) @@ (name :> found[2]) @@ used,
              Append(result, dset(proxy, "name", StrV(found[1]))))

\* Mutant: every node is given a numbered name.
ensure_unique_proxy_names_numbering(proxies) ==
  [i \in 1..Len(proxies) |->
     dset(proxies[i], "name",
          StrV(strip(py_str(get(dget(proxies[i], "name"), StrV("node"))))
               \o "_" \o ToString(i)))]

ensure_unique_proxy_names(proxies) == unique_names_loop(proxies, <<>>, <<>>)

RECURSIVE dedup_loop(_, _, _)
dedup_loop(proxies, by_fingerprint, result) ==
  IF proxies = <<>> THEN result
  ELSE
    LET fingerprint == proxy_fingerprint(Head(proxies))
    IN IF fingerprint \in by_fingerprint
       THEN dedup_loop(Tail(proxies), by_fingerprint, result)
       ELSE dedup_loop(Tail(proxies), by_fingerprint \cup {fingerprint},
                       Append(result, Head(proxies)))

deduplicate_proxies(proxies) ==
  ensure_unique_proxy_names(dedup_loop(proxies, {}, <<>>))

(***************************************************************************)
(* Proxy groups.  A group is a dict; by_name is the insertion-ordered dict *)
(* of merge_group_lists, kept as a sequence of <<key, group>> pairs.       *)
(***************************************************************************)
has_name(group) == is_dict(group) /\ truthy(dget(group, "name"))

group_key(group) == py_str(dget(group, "name"))

by_name_has(by_name, key) == \E i \in 1..Len(by_name) : by_name[i][1] = key

by_name_index(by_name, key) == CHOOSE i \in 1..Len(by_name) : by_name[i][1] = key

\* by_name[key] = group: a new key goes last, a known key keeps its place.
by_name_put(by_name, key, group) ==
  IF by_name_has(by_name, key)
  THEN [by_name EXCEPT ![by_name_index(by_name, key)] = <<key, group>>]
  ELSE Append(by_name, <<key, group>>)

\* Mutant: the member list of the incoming group is copied like any other
\* field.
merge_into_existing_replacing(existing, incoming) ==
  [existing EXCEPT !.d =
     [x \in (DOMAIN existing.d) \cup (DOMAIN incoming.d) |->
        IF x \in DOMAIN incoming.d THEN incoming.d[x] ELSE existing.d[x]]]

\* merge_group_lists, lines 298-307: incoming merged into the known group.
merge_into_existing(existing, incoming) ==
  LET incoming_proxies == get(dget(incoming, "proxies"), ListV(<<>>))
      existing_proxies == get(dget(existing, "proxies"), ListV(<<>>))
      copied == (DOMAIN incoming.d) \ {"proxies"}
      updated ==
        [existing EXCEPT !.d =
           [x \in (DOMAIN existing.d) \cup copied |->
              IF x \in copied THEN incoming.d[x] ELSE existing.d[x]]]
  IN IF is_list(existing_proxies) /\ is_list(incoming_proxies)
     THEN dset(updated, "proxies",
               ListV(unique_items(existing_proxies.l \o incoming_proxies.l)))
     ELSE updated

RECURSIVE base_by_name(_, _)
base_by_name(groups, by_name) ==
  IF groups = <<>> THEN by_name
  ELSE IF has_name(Head(groups))
  THEN base_by_name(Tail(groups),
                    by_name_put(by_name, group_key(Head(groups)), Head(groups)))
  ELSE base_by_name(Tail(groups), by_name)

RECURSIVE merge_new_groups(_, _)
merge_new_groups(new_groups, by_name) ==
  IF new_groups = <<>> THEN by_name
  ELSE
    LET group == Head(new_groups)
        key == group_key(group)
    IN IF ~has_name(group) THEN merge_new_groups(Tail(new_groups), by_name)
       ELSE IF ~by_name_has(by_name, key)
       THEN merge_new_groups(Tail(new_groups), Append(by_name, <<key, group>>))
       ELSE merge_new_groups(
              Tail(new_groups),
              by_name_put(by_name, key,
                merge_into_existing(by_name[by_name_index(by_name, key)][2], group)))

merge_group_lists(groups, new_groups) ==
  LET by_name == merge_new_groups(new_groups, base_by_name(groups, <<>>))
  IN [i \in 1..Len(by_name) |-> by_name[i][2]]

add_proxies_to_group(group, proxy_names) ==
  LET cloned == dpop(group, "use_all_proxies")
      use_all == truthy(get(dget(group, "use_all_proxies"), BoolV(FALSE)))
      given == get(dget(cloned, "proxies"), ListV(<<>>))
      current == IF is_list(given) THEN given.l ELSE <<>>
  IN IF use_all
     THEN dset(cloned, "proxies", ListV(unique_items(current \o proxy_names)))
     ELSE cloned

\* value if isinstance(value, list) else []
list_or_empty(value) == IF is_list(value) THEN value.l ELSE <<>>

(***************************************************************************)
(* OverrideLayer.                                                          *)
(***************************************************************************)
RECURSIVE deep_merge_config(_, _)
deep_merge_config(base, override) ==
  LET merged_value(key) ==
        LET value == override.d[key]
            current == dget(base, key)
        IN CASE key = "proxy-groups" ->
                  ListV(merge_group_lists(
                          list_or_empty(get(current, ListV(<<>>))),
                          list_or_empty(value)))
             [] key = "rules" ->
                  ListV(place_rules_before_match(
                          list_or_empty(get(current, ListV(<<>>))),
                          list_or_empty(value)))
             [] key = "proxies" ->
                  ListV(deduplicate_proxies(
                          SelectSeq(list_or_empty(get(current, ListV(<<>>)))
                                      \o list_or_empty(value),
                                    is_dict)))
             [] OTHER ->
                  IF is_dict(current) /\ is_dict(value)
                  THEN deep_merge_config(current, value)
                  ELSE value
  IN [base EXCEPT !.d =
        [key \in (DOMAIN base.d) \cup (DOMAIN override.d) |->
           IF key \in DOMAIN override.d THEN merged_value(key) ELSE base.d[key]]]

(***************************************************************************)
(* TemplateComposer and PolicyLayer.                                       *)
(***************************************************************************)
\* [str(proxy.get("name", "")) for proxy in proxies if proxy.get("name")]
names_of(proxies) ==
  LET named == SelectSeq(proxies, LAMBDA proxy : truthy(dget(proxy, "name")))
  IN [i \in 1..Len(named) |-> StrV(py_str(dget(named[i], "name")))]

\* [add_proxies_to_group(group, proxy_names) for the dict items of groups]
render_groups(groups, proxy_names) ==
  LET dicts == SelectSeq(groups, is_dict)
  IN [i \in 1..Len(dicts) |-> add_proxies_to_group(dicts[i], proxy_names)]

\* Mutant: the nodes are appended to the proxies of the template.
apply_subscription_data_extending(config, proxies) ==
  LET proxy_names == names_of(proxies)
      groups == list_or_empty(get(dget(config, "proxy-groups"), ListV(<<>>)))
      rendered == render_groups(groups, proxy_names)
      fallback ==
        DictV([name |-> StrV("PROXY"), type |-> StrV("select"),
               proxies |-> ListV(unique_items(<<StrV("DIRECT")>> \o proxy_names))])
  IN dset(dset(config, "proxies",
               ListV(list_or_empty(get(dget(config, "proxies"), ListV(<<>>))) \o proxies)),
          "proxy-groups",
          ListV(IF rendered = <<>> THEN <<fallback>> ELSE rendered))

apply_subscription_data(config, proxies) ==
  LET proxy_names == names_of(proxies)
      groups == list_or_empty(get(dget(config, "proxy-groups"), ListV(<<>>)))
      rendered == render_groups(groups, proxy_names)
      fallback ==
        DictV([name |-> StrV("PROXY"), type |-> StrV("select"),
               proxies |-> ListV(unique_items(<<StrV("DIRECT")>> \o proxy_names))])
  IN dset(dset(config, "proxies", ListV(proxies)),
          "proxy-groups",
          ListV(IF rendered = <<>> THEN <<fallback>> ELSE rendered))

apply_site_policy(config, site_policy, proxy_names) ==
  LET incoming_groups == get(dget(site_policy, "groups"), ListV(<<>>))
      rendered_policy_groups == render_groups(list_or_empty(incoming_groups), proxy_names)
      existing_groups == list_or_empty(get(dget(config, "proxy-groups"), ListV(<<>>)))
      with_groups ==
        dset(config, "proxy-groups",
             ListV(merge_group_lists(existing_groups, rendered_policy_groups)))
      incoming_rules == get(dget(site_policy, "rules"), ListV(<<>>))
      existing_rules == list_or_empty(get(dget(config, "rules"), ListV(<<>>)))
  IN IF is_list(incoming_rules)
     THEN dset(with_groups, "rules",
               ListV(place_rules_before_match(existing_rules, incoming_rules.l)))
     ELSE with_groups

(***************************************************************************)
(* Environment of the merge process.  env is a record of the raw values of *)
(* the variables the pipeline reads; Absent is an unset variable.          *)
(***************************************************************************)
LowerLetters == "abcdefghijklmnopqrstuvwxyz"

UpperLetters == "ABCDEFGHIJKLMNOPQRSTUVWXYZ"

\* The character of `to` at the place c has in `from`; c when it has none.
map_char(c, from, to) ==
  IF \E i \in 1..Len(from) : SubSeq(from, i, i) = c
  THEN LET i == CHOOSE j \in 1..Len(from) : SubSeq(from, j, j) = c
       IN SubSeq(to, i, i)
  ELSE c

RECURSIVE map_chars(_, _, _)
map_chars(s, from, to) ==
  IF s = "" THEN ""
  ELSE map_char(SubSeq(s, 1, 1), from, to) \o map_chars(SubSeq(s, 2, Len(s)), from, to)

\* str.lower()
lower(s) == map_chars(s, UpperLetters, LowerLetters)

\* str.upper()
upper(s) == map_chars(s, LowerLetters, UpperLetters)

Digits == "0123456789"

is_digits(s) ==
  /\ s # ""
  /\ \A i \in 1..Len(s) : \E j \in 1..Len(Digits) : SubSeq(Digits, j, j) = SubSeq(s, i, i)

RECURSIVE digits_value(_)
digits_value(s) ==
  IF s = "" THEN 0
  ELSE LET last == SubSeq(s, Len(s), Len(s))
           j == CHOOSE x \in 1..Len(Digits) : SubSeq(Digits, x, x) = last
       IN digits_value(SubSeq(s, 1, Len(s) - 1)) * 10 + (j - 1)

\* os.environ.get(var_name, default)
env_get(value, default) == IF value = Absent THEN default ELSE value.s

\* read_int_env: the int an environment value denotes, NoneV when unset, blank
\* or not a decimal integer.
read_int_env(value) ==
  LET raw == strip(env_get(value, ""))
      signed == Len(raw) > 1 /\ SubSeq(raw, 1, 1) \in {"+", "-"}
      body == IF signed THEN SubSeq(raw, 2, Len(raw)) ELSE raw
  IN IF raw = "" \/ ~is_digits(body) THEN NoneV
     ELSE IF signed /\ SubSeq(raw, 1, 1) = "-" THEN IntV(0 - digits_value(body))
     ELSE IntV(digits_value(body))

env_flag(value) == lower(strip(env_get(value, ""))) \in {"1", "true", "yes", "on"}

DefaultExternalController == "0.0.0.0:9090"

get_external_controller(env) ==
  LET configured == strip(env_get(env.CLASH_EXTERNAL_CONTROLLER, ""))
  IN IF configured # "" THEN configured ELSE DefaultExternalController

(***************************************************************************)
(* RuntimeNormalizer, GroupSanitizer, RuleFilter.                          *)
(***************************************************************************)
\* Mutant: the runtime fields are set only where the document has none.
ensure_runtime_values_setdefault(config, env) ==
  LET forced == [x \in {"allow-lan", "bind-address", "external-controller"} |->
                   CASE x = "allow-lan" -> BoolV(TRUE)
                     [] x = "bind-address" -> StrV("*")
                     [] OTHER -> StrV(get_external_controller(env))]
  IN [config EXCEPT !.d = config.d @@ forced]

ensure_runtime_values(config, env) ==
  LET mixed_port == read_int_env(env.CLASH_MIXED_PORT)
      socks_port == read_int_env(env.CLASH_SOCKS_PORT)
      secret == env.CLASH_SECRET
      forced == [x \in {"allow-lan", "bind-address", "external-controller"} |->
                   CASE x = "allow-lan" -> BoolV(TRUE)
                     [] x = "bind-address" -> StrV("*")
                     [] OTHER -> StrV(get_external_controller(env))]
      with_forced == [config EXCEPT !.d = forced @@ config.d]
      with_mixed ==
        IF mixed_port # NoneV THEN dset(with_forced, "mixed-port", mixed_port)
        ELSE with_forced
      with_socks ==
        IF socks_port # NoneV THEN dset(with_mixed, "socks-port", socks_port)
        ELSE with_mixed
  IN IF truthy(secret) THEN dset(with_socks, "secret", secret) ELSE with_socks

list_proxy_names(config) ==
  LET proxies == get(dget(config, "proxies"), ListV(<<>>))
      dicts == SelectSeq(list_or_empty(proxies), is_dict)
      names == [i \in 1..Len(dicts) |->
                  StrV(strip(py_str(get(dget(dicts[i], "name"), StrV("")))))]
  IN unique_items(SelectSeq(names, truthy))

\* [str(item).strip() for item in items if str(item).strip()]
cleaned_items(items) ==
  LET stripped == [i \in 1..Len(items) |-> StrV(strip(py_str(items[i])))]
  IN SelectSeq(stripped, truthy)

\* sanitize_proxy_groups, lines 503-517: one of the keys "use", "proxies".
clean_source(group, key) ==
  LET items == dget(group, key)
  IN IF is_list(items)
     THEN IF cleaned_items(items.l) # <<>>
          THEN dset(group, key, ListV(unique_items(cleaned_items(items.l))))
          ELSE dpop(group, key)
     ELSE group

\* sanitize_proxy_groups, the loop body.
sanitize_group(group, fallback_proxies) ==
  LET current == clean_source(clean_source(group, "use"), "proxies")
  IN IF ~truthy(dget(current, "use")) /\ ~truthy(dget(current, "proxies"))
     THEN dset(current, "proxies", ListV(fallback_proxies))
     ELSE current

\* Mutant: a group left without a source is dropped.
sanitize_proxy_groups_dropping(config) ==
  LET groups == get(dget(config, "proxy-groups"), ListV(<<>>))
      dicts == SelectSeq(list_or_empty(groups), is_dict)
      cleaned == [i \in 1..Len(dicts) |->
                    clean_source(clean_source(dicts[i], "use"), "proxies")]
  IN IF ~is_list(groups) THEN config
     ELSE dset(config, "proxy-groups",
               ListV(SelectSeq(cleaned,
                               LAMBDA g : truthy(dget(g, "use")) \/ truthy(dget(g, "proxies")))))

sanitize_proxy_groups(config) ==
  LET groups == get(dget(config, "proxy-groups"), ListV(<<>>))
      fallback_proxies == unique_items(list_proxy_names(config) \o <<StrV("DIRECT")>>)
      dicts == SelectSeq(list_or_empty(groups), is_dict)
  IN IF ~is_list(groups) THEN config
     ELSE dset(config, "proxy-groups",
               ListV([i \in 1..Len(dicts) |-> sanitize_group(dicts[i], fallback_proxies)]))

\* Mutant: the category is compared as it is written.
is_geoip_rule_case_sensitive(rule) == rule.k = "str" /\ startswith(strip(rule.s), "GEOIP,")

is_geoip_rule(rule) == rule.k = "str" /\ startswith(upper(strip(rule.s)), "GEOIP,")

maybe_disable_geoip_rules(config, env) ==
  LET rules_value == get(dget(config, "rules"), ListV(<<>>))
      filtered_rules == SelectSeq(rules_value.l, LAMBDA rule : ~is_geoip_rule(rule))
  IN IF ~env_flag(env.CLASH_DISABLE_GEOIP) \/ ~is_list(rules_value) THEN config
     ELSE IF Len(filtered_rules) # Len(rules_value.l)
     THEN dset(config, "rules", ListV(filtered_rules))
     ELSE config

(***************************************************************************)
(* SpecDedup: the fetch loop of merge_subscriptions concatenates the       *)
(* fetched node lists in declaration order, then the Deduplicator runs.    *)
(***************************************************************************)
MaxSubNodes == 2

\* The enabled subscriptions of subscriptions.json, in declaration order.
Subscriptions == <<"sub1", "sub2">>

NumSubs == Len(Subscriptions)

\* A node dict with the given name, server and port (no port key when Absent).
Node(name, server, port) ==
  LET full == [name |-> name, type |-> StrV("ss"), server |-> server, port |-> port]
  IN DictV([key \in {x \in DOMAIN full : full[x] # Absent} |-> full[key]])

\* Nodes with three distinct fingerprints; an int port and the same port
\* written as a string have one fingerprint.
NodeUniverse ==
  { Node(StrV("a"), StrV("s1"), IntV(443)),
    Node(StrV("b"), StrV("s1"), StrV("443")),
    Node(StrV("a"), StrV("s2"), IntV(443)),
    Node(StrV("a_1"), StrV("s2"), IntV(443)),
    Node(StrV(" a"), StrV("s3"), Absent),
    Node(StrV("a_1"), StrV("s3"), Absent) }

NodeLists == SeqsUpTo(NodeUniverse, MaxSubNodes)

InitDedup ==
  /\ fetched \in [1..NumSubs -> NodeLists]
  /\ subIndex = 0
  /\ merged_proxies = <<>>
  /\ deduped = <<>>
  /\ dedupedAgain = <<>>
  /\ dedupStage = "fetch"
  /\ failedSubs = {}
  /\ fetchedSubs = {}
  /\ RulesIdle /\ OverrideIdle /\ PipelineIdle /\ SystemIdle

\* A second run is given the payloads of the first: the fetch of a
\* subscription returns in it when it returned in the first run, and only then.
SamePayload(index, returns) ==
  firstDocument \in {<<>>, Absent} \/ (index \notin firstFailed) = returns

\* merge_subscriptions, one iteration of the loop over the subscriptions.
ExtendMerged ==
  /\ dedupStage = "fetch"
  /\ subIndex < NumSubs
  /\ SamePayload(subIndex + 1, TRUE)
  /\ subIndex' = subIndex + 1
  /\ merged_proxies' = merged_proxies \o fetched[subIndex + 1]
  /\ fetchedSubs' = fetchedSubs \cup {subIndex + 1}
  /\ UNCHANGED <<fetched, deduped, dedupedAgain, dedupStage, failedSubs, exceptDedup>>

\* merge_subscriptions: deduped = deduplicate_proxies(merged_proxies).
Deduplicate ==
  /\ dedupStage = "fetch"
  /\ subIndex = NumSubs
  /\ deduped' = deduplicate_proxies(merged_proxies)
  /\ dedupStage' = "done"
  /\ UNCHANGED <<fetched, subIndex, merged_proxies, dedupedAgain, failedSubs, fetchedSubs,
                 exceptDedup>>

\* The Deduplicator run on its own output.
DeduplicateAgain ==
  /\ dedupStage = "done"
  /\ dedupedAgain' = deduplicate_proxies(deduped)
  /\ dedupStage' = "again"
  /\ UNCHANGED <<fetched, subIndex, merged_proxies, deduped, failedSubs, fetchedSubs,
                 exceptDedup>>

NextDedup == ExtendMerged \/ Deduplicate \/ DeduplicateAgain

SpecDedup == InitDedup /\ [][NextDedup]_vars

(***************************************************************************)
(* Claims about the Deduplicator.                                          *)
(***************************************************************************)
\* The identity fields of a node, an absent field read as empty.
Identity(proxy) ==
  [i \in 1..Len(FingerprintKeys) |->
     py_str(get(dget(proxy, FingerprintKeys[i]), StrV("")))]

\* fetched[1] o fetched[2] o ...: the concatenation in declaration order.
RECURSIVE Concat(_)
Concat(lists) == IF lists = <<>> THEN <<>> ELSE Head(lists) \o Concat(Tail(lists))

\* Positions of the input whose identity no earlier position carries.
FirstCarriers(input) ==
  { i \in 1..Len(input) :
      \A j \in 1..(i - 1) : Identity(input[j]) # Identity(input[i]) }

\* The k-th smallest element of a finite set of numbers.
RECURSIVE Nth(_, _)
Nth(S, k) ==
  LET m == CHOOSE x \in S : \A y \in S : x <= y
  IN IF k = 1 THEN m ELSE Nth(S \ {m}, k - 1)

NodeNames(proxies) == [i \in 1..Len(proxies) |-> dget(proxies[i], "name")]

C6_UniqueNames ==
  dedupStage = "done" =>
    /\ \A i, j \in 1..Len(deduped) :
         i # j => NodeNames(deduped)[i] # NodeNames(deduped)[j]
    /\ Len(deduped) <= Len(merged_proxies)

\* An input that already holds a name of the form <name>_<n> collides with the
\* first candidate of a renamed node.
C6_Witness ==
  /\ dedupStage = "done"
  /\ \E i \in 1..Len(merged_proxies) : NodeNames(merged_proxies)[i] = StrV("a_1")
  /\ \E i \in 1..Len(deduped) :
       NodeNames(deduped)[i] \in {StrV("a_2"), StrV("a_1_1")}

(***************************************************************************)
(* SpecOverride: an override document is deep-merged into a base document, *)
(* and then once more into the result.                                     *)
(***************************************************************************)
Group(name, type) == DictV([name |-> StrV(name), type |-> StrV(type)])

Members(names) == ListV([i \in 1..Len(names) |-> StrV(names[i])])

\* A dict with the keys of f whose value is not Absent.
Doc(f) == DictV([key \in {x \in DOMAIN f : f[x] # Absent} |-> f[key]])

BaseGroupValues ==
  { Absent,
    ListV(<<dset(Group("PROXY", "select"), "proxies", Members(<<"DIRECT">>))>>),
    ListV(<<dset(Group("PROXY", "select"), "proxies", Members(<<"DIRECT">>)),
            dset(Group("AI", "select"), "proxies", Members(<<"a">>))>>) }

OverrideGroupValues ==
  { Absent,
    ListV(<<dset(Group("PROXY", "url-test"), "proxies", Members(<<"a", "DIRECT">>))>>),
    ListV(<<dset(Group("AI", "select"), "use", Members(<<"provider1">>))>>),
    ListV(<<dset(Group("NEW", "select"), "proxies", Members(<<"b">>)),
            dset(dset(Group("AI", "fallback"), "proxies", Members(<<"b", "a">>)),
                 "url", StrV("http://example.com/204"))>>),
    StrV("none") }

BaseRuleValues ==
  { Absent,
    ListV(<<StrV("DOMAIN,a.com,DIRECT"), StrV("MATCH,PROXY")>>),
    ListV(<<StrV("MATCH,PROXY")>>) }

OverrideRuleValues ==
  { Absent,
    ListV(<<StrV("DOMAIN,b.com,AI")>>),
    ListV(<<StrV("MATCH,DIRECT"), StrV("DOMAIN,a.com,DIRECT")>>) }

BaseProxyValues ==
  { Absent,
    ListV(<<Node(StrV("a"), StrV("s1"), IntV(443))>>),
    ListV(<<Node(StrV("a"), StrV("s1"), IntV(443)),
            Node(StrV("a"), StrV("s2"), IntV(443))>>) }

OverrideProxyValues ==
  { Absent,
    ListV(<<Node(StrV("a"), StrV("s3"), Absent)>>),
    ListV(<<Node(StrV("b"), StrV("s1"), StrV("443")),
            Node(StrV("a_1"), StrV("s3"), Absent)>>) }

BaseDnsValues ==
  { Absent,
    StrV("off"),
    DictV([listen |-> StrV("0.0.0.0:1053"),
           fallback |-> DictV([geoip |-> BoolV(TRUE)])]) }

OverrideDnsValues ==
  { Absent,
    StrV("off"),
    DictV([enable |-> BoolV(TRUE),
           fallback |-> DictV([geoip |-> BoolV(FALSE), ipcidr |-> StrV("240.0.0.0/4")])]) }

BaseDocs ==
  { Doc([proxies |-> ps, rules |-> rs, dns |-> dns,
         mode |-> StrV("rule")] @@ ("proxy-groups" :> gs)) :
      ps \in BaseProxyValues, gs \in BaseGroupValues, rs \in BaseRuleValues,
      dns \in BaseDnsValues }

OverrideDocs ==
  { Doc([proxies |-> ps, rules |-> rs, dns |-> dns, mode |-> mode]
          @@ ("proxy-groups" :> gs)) :
      ps \in OverrideProxyValues, gs \in OverrideGroupValues,
      rs \in OverrideRuleValues, dns \in OverrideDnsValues,
      mode \in {Absent, StrV("global")} }

InitOverride ==
  /\ docBase \in BaseDocs
  /\ docOverride \in OverrideDocs
  /\ docOnce = <<>>
  /\ docTwice = <<>>
  /\ mergeStage = "base"
  /\ RulesIdle /\ DedupIdle /\ PipelineIdle /\ SystemIdle

\* config = deep_merge_config(config, override)
MergeOnce ==
  /\ mergeStage = "base"
  /\ docOnce' = deep_merge_config(docBase, docOverride)
  /\ mergeStage' = "once"
  /\ UNCHANGED <<docBase, docOverride, docTwice, exceptOverride>>

\* The same override document applied to the result.
MergeTwice ==
  /\ mergeStage = "once"
  /\ docTwice' = deep_merge_config(docOnce, docOverride)
  /\ mergeStage' = "twice"
  /\ UNCHANGED <<docBase, docOverride, docOnce, exceptOverride>>

NextOverride == MergeOnce \/ MergeTwice

SpecOverride == InitOverride /\ [][NextOverride]_vars

(***************************************************************************)
(* Claims about the OverrideLayer.                                         *)
(***************************************************************************)
\* C7 (override idempotence): merging the same override document into the
\* result of a merge changes nothing:
\* deep_merge_config(deep_merge_config(B, O), O) = deep_merge_config(B, O).
C7_OverrideIdempotent == mergeStage = "twice" => docTwice = docOnce

\* The groups of a list that merge_group_lists takes up, and their keys.
NamedGroups(groups) == SelectSeq(groups, has_name)

GroupKeys(groups) ==
  LET named == NamedGroups(groups) IN [i \in 1..Len(named) |-> group_key(named[i])]

GroupsOfKey(groups, key) == SelectSeq(NamedGroups(groups), LAMBDA g : group_key(g) = key)

MemberList(group) == get(dget(group, "proxies"), ListV(<<>>))

\* C23 (group-list merge): the merged list has one group per distinct name,
\* the base names first in base order and then the new names in incoming
\* order; a group on one side only is taken as it is; for a name on both
\* sides every field of the incoming group other than proxies replaces the
\* base value, the other base fields are kept, and proxies is the base
\* members followed by the incoming members not already present.
C23_GroupListMerge ==
  (mergeStage = "once" /\ "proxy-groups" \in DOMAIN docOverride.d) =>
    LET base == list_or_empty(get(dget(docBase, "proxy-groups"), ListV(<<>>)))
        incoming == list_or_empty(dget(docOverride, "proxy-groups"))
        result == dget(docOnce, "proxy-groups").l
    IN /\ GroupKeys(result) = unique_items(GroupKeys(base) \o GroupKeys(incoming))
       /\ Len(result) = Len(GroupKeys(result))
       /\ \A i \in 1..Len(result) :
            LET key == group_key(result[i])
                b == GroupsOfKey(base, key)
                n == GroupsOfKey(incoming, key)
            IN /\ (Len(b) = 1 /\ Len(n) = 0) => result[i] = b[1]
               /\ (Len(b) = 0 /\ Len(n) = 1) => result[i] = n[1]
               /\ (Len(b) = 1 /\ Len(n) = 1) =>
                    /\ \A f \in (DOMAIN n[1].d) \ {"proxies"} :
                         dget(result[i], f) = n[1].d[f]
                    /\ \A f \in (DOMAIN b[1].d) \ ((DOMAIN n[1].d) \cup {"proxies"}) :
                         dget(result[i], f) = b[1].d[f]
                    /\ DOMAIN result[i].d \subseteq
                         (DOMAIN b[1].d) \cup (DOMAIN n[1].d) \cup {"proxies"}
                    /\ (is_list(MemberList(b[1])) /\ is_list(MemberList(n[1]))) =>
                         dget(result[i], "proxies") =
                           ListV(unique_items(MemberList(b[1]).l \o MemberList(n[1]).l))

C23_Witness ==
  /\ mergeStage = "once"
  /\ "proxy-groups" \in DOMAIN docOverride.d
  /\ GroupKeys(dget(docOnce, "proxy-groups").l) = <<"PROXY", "AI", "NEW">>
  /\ dget(dget(docOnce, "proxy-groups").l[2], "proxies") = Members(<<"a", "b">>)
  /\ dget(dget(docOnce, "proxy-groups").l[2], "type") = StrV("fallback")

(***************************************************************************)
(* ScriptOverrideSandbox.  The node subprocess exchanges JSON with the     *)
(* pipeline; a JSON text is represented by the value it denotes, the empty *)
(* output by Absent and an output that is no JSON text by InvalidJson.     *)
(***************************************************************************)
\* JavaScript's undefined.
UndefinedV == [k |-> "undefined", s |-> "", n |-> 0, l |-> <<>>, d |-> <<>>]

InvalidJson == [k |-> "invalid", s |-> "", n |-> 0, l |-> <<>>, d |-> <<>>]

\* json.loads(JSON.stringify(value)): a property whose value is undefined is
\* left out, an undefined array item becomes null.
RECURSIVE json_roundtrip(_)
json_roundtrip(value) ==
  CASE value.k = "dict" ->
         DictV([key \in {x \in DOMAIN value.d : value.d[x] # UndefinedV} |->
                  json_roundtrip(value.d[key])])
    [] value.k = "list" ->
         ListV([i \in 1..Len(value.l) |->
                  IF value.l[i] = UndefinedV THEN NoneV ELSE json_roundtrip(value.l[i])])
    [] OTHER -> value

\* What the scripts of the model do to the document they are given: the
\* script rewrites the runtime fields, deletes the secret and adds a group
\* without members.
rewritten_by_script(incoming) ==
  LET groups == list_or_empty(get(dget(incoming, "proxy-groups"), ListV(<<>>)))
      added == DictV([name |-> StrV("SCRIPTED"), type |-> StrV("select"),
                      proxies |-> ListV(<<>>), use |-> UndefinedV])
      fields == [x \in {"allow-lan", "bind-address", "external-controller",
                        "secret", "mixed-port", "proxy-groups"} |->
                   CASE x = "allow-lan" -> BoolV(FALSE)
                     [] x = "bind-address" -> StrV("127.0.0.1")
                     [] x = "external-controller" -> StrV("127.0.0.1:9999")
                     [] x = "secret" -> UndefinedV
                     [] x = "mixed-port" -> IntV(1)
                     [] OTHER -> ListV(groups \o <<added>>)]
  IN [incoming EXCEPT !.d = fields @@ incoming.d]

\* The value main(config) returns.
main_result(run, incoming) ==
  CASE run = "returns_config" -> incoming
    [] run = "returns_rewritten" -> rewritten_by_script(incoming)
    [] run = "returns_array" -> ListV(<<incoming>>)
    [] run = "returns_scalar" -> IntV(1)
    [] run = "returns_null" -> NoneV
    [] OTHER -> UndefinedV

\* js_runner: exit code and standard output of the node process.
js_runner(run, payload) ==
  LET incoming == payload.config
      result == main_result(run, incoming)
      output == IF result = UndefinedV THEN incoming ELSE result
  IN CASE run \in {"no_main", "throws"} -> [returncode |-> 2, stdout |-> Absent]
       [] run = "exits_silently" -> [returncode |-> 0, stdout |-> Absent]
       [] run = "writes_array" -> [returncode |-> 0, stdout |-> ListV(<<>>)]
       [] run = "logs_to_stdout" -> [returncode |-> 0, stdout |-> InvalidJson]
       [] ~is_dict(output) -> [returncode |-> 2, stdout |-> Absent]
       [] OTHER -> [returncode |-> 0, stdout |-> json_roundtrip(output)]

\* subprocess.run([node_bin, "-e", js_runner], ..., timeout=...)
subprocess_run(run, payload) ==
  CASE run = "no_node" -> [raised |-> "FileNotFoundError", returncode |-> 0, stdout |-> Absent]
    [] run = "hangs" -> [raised |-> "TimeoutExpired", returncode |-> 0, stdout |-> Absent]
    [] OTHER -> [raised |-> ""] @@ js_runner(run, payload)

Raise(message, config) == [error |-> message, config |-> config]

Return(config) == [error |-> "", config |-> config]

\* Mutant: a script that exceeds the timeout is skipped.
apply_js_override_skipping_timeout(config, script_text, run) ==
  LET script == strip(script_text)
      result == subprocess_run(run, [config |-> config, script |-> script])
  IN CASE script = "" -> Return(config)
       [] result.raised = "FileNotFoundError" -> Raise("node runtime not found", config)
       [] result.raised = "TimeoutExpired" -> Return(config)
       [] result.returncode # 0 -> Raise("js execution error", config)
       [] result.stdout = Absent -> Raise("override.js returned empty output", config)
       [] result.stdout = InvalidJson -> Raise("JSONDecodeError", config)
       [] ~is_dict(result.stdout) -> Raise("override.js output must be a json object", config)
       [] OTHER -> Return(result.stdout)

\* apply_js_override: the document it returns, or the exception it raises.
apply_js_override(config, script_text, run) ==
  LET script == strip(script_text)
      result == subprocess_run(run, [config |-> config, script |-> script])
  IN CASE script = "" -> Return(config)
       [] result.raised = "FileNotFoundError" -> Raise("node runtime not found", config)
       [] result.raised = "TimeoutExpired" -> Raise("override.js execution timeout", config)
       [] result.returncode # 0 -> Raise("js execution error", config)
       [] result.stdout = Absent -> Raise("override.js returned empty output", config)
       [] result.stdout = InvalidJson -> Raise("JSONDecodeError", config)
       [] ~is_dict(result.stdout) -> Raise("override.js output must be a json object", config)
       [] OTHER -> Return(result.stdout)

(***************************************************************************)
(* SpecPipeline: one run of merge_subscriptions.                           *)
(***************************************************************************)
build_default_template ==
  DictV([x \in {"mixed-port", "socks-port", "allow-lan", "bind-address", "mode",
                "log-level", "external-controller", "secret", "proxies",
                "proxy-groups", "rules"} |->
    CASE x = "mixed-port" -> IntV(17890)
      [] x = "socks-port" -> IntV(7891)
      [] x = "allow-lan" -> BoolV(TRUE)
      [] x = "bind-address" -> StrV("*")
      [] x = "mode" -> StrV("rule")
      [] x = "log-level" -> StrV("info")
      [] x = "external-controller" -> StrV("0.0.0.0:9090")
      [] x = "secret" -> StrV("")
      [] x = "proxies" -> ListV(<<>>)
      [] x = "proxy-groups" ->
           ListV(<<DictV([name |-> StrV("PROXY"), type |-> StrV("select"),
                          proxies |-> Members(<<"AUTO", "DIRECT">>),
                          use_all_proxies |-> BoolV(TRUE)]),
                   DictV([name |-> StrV("AUTO"), type |-> StrV("url-test"),
                          url |-> StrV("http://www.gstatic.com/generate_204"),
                          interval |-> IntV(300), tolerance |-> IntV(50),
                          proxies |-> ListV(<<>>),
                          use_all_proxies |-> BoolV(TRUE)])>>)
      [] OTHER -> Members(<<"MATCH,PROXY">>)])

\* load_yaml: the default stands in for a missing file and for an empty one.
load_yaml(file, default) == IF file = Absent \/ file = NoneV THEN default ELSE file

\* A YAML file opened for writing and not yet written to.
EmptyFile == NoneV

\* A YAML file that holds the beginning of a document only.
PartialFile == [k |-> "partial", s |-> "", n |-> 0, l |-> <<>>, d |-> <<>>]

Env(controller, mixed_port, socks_port, secret, disable_geoip) ==
  [CLASH_EXTERNAL_CONTROLLER |-> controller, CLASH_MIXED_PORT |-> mixed_port,
   CLASH_SOCKS_PORT |-> socks_port, CLASH_SECRET |-> secret,
   CLASH_DISABLE_GEOIP |-> disable_geoip]

Environments ==
  { Env(Absent, Absent, Absent, Absent, Absent),
    Env(StrV(" 10.0.0.2:9090 "), StrV("7890"), StrV(" 7891 "), StrV("s3cret"), StrV("TRUE")),
    Env(StrV("  "), StrV("abc"), StrV(""), StrV(""), StrV("0")) }

\* A template that disables remote management and has a group without members
\* and a group fed by a provider.
ClosedTemplate ==
  Doc([secret |-> StrV("tmpl"),
       rules |-> Members(<<"GEOIP,CN,DIRECT", "MATCH,MANUAL">>)]
      @@ ("allow-lan" :> BoolV(FALSE))
      @@ ("bind-address" :> StrV("127.0.0.1"))
      @@ ("external-controller" :> StrV("127.0.0.1:9090"))
      @@ ("mixed-port" :> IntV(1080))
      @@ ("proxy-groups" :>
            ListV(<<DictV([name |-> StrV("MANUAL"), type |-> StrV("select"),
                           proxies |-> ListV(<<>>)]),
                    DictV([name |-> StrV("PROV"), type |-> StrV("select"),
                           use |-> Members(<<"provider1">>)])>>)))

\* A template whose group names its only member as a scalar.
ScalarTemplate ==
  Doc([rules |-> Members(<<"MATCH,FIXED">>)]
      @@ ("proxy-groups" :>
            ListV(<<DictV([name |-> StrV("FIXED"), type |-> StrV("select"),
                           proxies |-> StrV("DIRECT")])>>)))

\* A template without groups that lists a node of its own.
BareTemplate ==
  Doc([proxies |-> ListV(<<Node(StrV("stale"), StrV("s9"), IntV(443))>>),
       rules |-> Members(<<"DOMAIN,t.com,PROXY", "MATCH,PROXY">>)])

TemplateFiles == {Absent, ClosedTemplate, ScalarTemplate, BareTemplate}

SitePolicy ==
  Doc([groups |->
         ListV(<<DictV([name |-> StrV("AI"), type |-> StrV("select"),
                        use_all_proxies |-> BoolV(TRUE)]),
                 DictV([name |-> StrV("EMPTY"), type |-> StrV("select"),
                        proxies |-> Members(<<" ">>)])>>),
       rules |-> Members(<<"DOMAIN-SUFFIX,openai.com,AI">>)])

SitePolicyFiles == {Absent, SitePolicy}

OverrideDocument ==
  Doc([secret |-> StrV("ovr"), rules |-> Members(<<"geoip,US,PROXY">>)]
      @@ ("allow-lan" :> BoolV(FALSE))
      @@ ("bind-address" :> StrV("127.0.0.1"))
      @@ ("external-controller" :> StrV("127.0.0.1:9090"))
      @@ ("socks-port" :> IntV(1))
      @@ ("proxy-groups" :>
            ListV(<<DictV([name |-> StrV("LOCAL"), type |-> StrV("select"),
                           proxies |-> ListV(<<>>), use |-> ListV(<<>>)]),
                    DictV([name |-> StrV("ALL"), type |-> StrV("select"),
                           use_all_proxies |-> BoolV(TRUE)])>>)))

\* No file, a mapping, and a YAML document that is no mapping.
OverrideFiles == {Absent, OverrideDocument, ListV(<<>>)}

ScriptText == "const main = (config) => { /* ... */ }"

ScriptRuns ==
  {"no_main", "throws", "returns_undefined", "returns_config", "returns_rewritten",
   "returns_array", "returns_scalar", "returns_null", "exits_silently",
   "writes_array", "logs_to_stdout", "hangs", "no_node"}

\* The script file with what node does when given it; a blank file is not run.
Scripts ==
  { <<"", "none">>, <<"  ", "none">> } \cup { <<ScriptText, run>> : run \in ScriptRuns }

PipelineFetches ==
  { <<<<Node(StrV("a"), StrV("s1"), IntV(443))>>,
      <<Node(StrV("a"), StrV("s2"), IntV(443)), Node(StrV("b"), StrV("s1"), StrV("443"))>>>>,
    <<<<>>, <<Node(StrV(" hk "), StrV("s3"), Absent)>>>> }

PreviousDocument == Doc([proxies |-> ListV(<<>>), mode |-> StrV("direct")])

InitPipeline ==
  /\ environ \in Environments
  /\ templateFile \in TemplateFiles
  /\ sitePolicyFile \in SitePolicyFiles
  /\ overrideFile \in OverrideFiles
  /\ \E script \in Scripts : scriptFile = script[1] /\ scriptRun = script[2]
  /\ fetched \in PipelineFetches
  /\ subIndex = 0 /\ merged_proxies = <<>> /\ deduped = <<>> /\ dedupedAgain = <<>>
  /\ dedupStage = "fetch"
  /\ failedSubs = {}
  /\ fetchedSubs = {}
  /\ document = Absent
  /\ pc = "compose"
  /\ previousFile \in {Absent, PreviousDocument}
  /\ configFile = previousFile
  /\ backups = <<>>
  /\ error = ""
  /\ firstDocument = Absent
  /\ firstFailed = {}
  /\ RulesIdle /\ OverrideIdle /\ SystemIdle

\* What a run reads and never writes, and what is remembered of the run
\* before it.
pipelineInputs ==
  <<environ, templateFile, sitePolicyFile, overrideFile, scriptFile, scriptRun,
    previousFile, firstDocument, firstFailed>>

\* What a stage that only transforms the document leaves alone.
exceptDocument ==
  <<pipelineInputs, configFile, backups, error, dedupVars, exceptPipeline>>

\* Mutant: the exception of a fetch ends the run.
FetchFailsFatally ==
  /\ dedupStage = "fetch"
  /\ subIndex < NumSubs
  /\ subIndex' = NumSubs
  /\ failedSubs' = failedSubs \cup {subIndex + 1}
  /\ pc' = "aborted"
  /\ error' = "fetch failed"
  /\ UNCHANGED <<fetched, merged_proxies, deduped, dedupedAgain, dedupStage, fetchedSubs,
                 pipelineInputs, document, configFile, backups, exceptPipeline>>

\* merge_subscriptions, one iteration of the loop: fetch_subscription raises,
\* the except clause logs the failure and the loop goes on.
FetchFails ==
  /\ dedupStage = "fetch"
  /\ subIndex < NumSubs
  /\ SamePayload(subIndex + 1, FALSE)
  /\ subIndex' = subIndex + 1
  /\ failedSubs' = failedSubs \cup {subIndex + 1}
  /\ UNCHANGED <<fetched, merged_proxies, deduped, dedupedAgain, dedupStage, fetchedSubs,
                 exceptDedup>>

\* merge_subscriptions, one iteration of the loop: fetch_subscription has
\* returned and merged_proxies is extended; the save_yaml of the cache
\* snapshot (or the write of the raw text) raises, and the except clause logs
\* the subscription as failed.
CacheWriteFails ==
  /\ dedupStage = "fetch"
  /\ subIndex < NumSubs
  /\ SamePayload(subIndex + 1, TRUE)
  /\ subIndex' = subIndex + 1
  /\ merged_proxies' = merged_proxies \o fetched[subIndex + 1]
  /\ fetchedSubs' = fetchedSubs \cup {subIndex + 1}
  /\ failedSubs' = failedSubs \cup {subIndex + 1}
  /\ UNCHANGED <<fetched, deduped, dedupedAgain, dedupStage, exceptDedup>>

\* Mutant: the document config.yaml holds, when it holds one, is taken for the
\* template.
ComposeOverExisting ==
  /\ pc = "compose"
  /\ dedupStage = "done"
  /\ document' =
       apply_subscription_data(IF is_dict(configFile)
                                 THEN configFile
                                 ELSE load_yaml(templateFile, build_default_template),
                               deduped)
  /\ pc' = "policy"
  /\ UNCHANGED exceptDocument

\* config = apply_subscription_data(template, deduped)
ComposeTemplate ==
  /\ pc = "compose"
  /\ dedupStage = "done"
  /\ document' = apply_subscription_data(load_yaml(templateFile, build_default_template),
                                         deduped)
  /\ pc' = "policy"
  /\ UNCHANGED exceptDocument

\* config = apply_site_policy(config, site_policy, proxy_names)
ApplyPolicy ==
  /\ pc = "policy"
  /\ document' =
       apply_site_policy(document,
                         load_yaml(sitePolicyFile,
                                   DictV([groups |-> ListV(<<>>), rules |-> ListV(<<>>)])),
                         names_of(deduped))
  /\ pc' = "override"
  /\ UNCHANGED exceptDocument

\* config = deep_merge_config(config, override if isinstance(override, dict) else {})
ApplyOverride ==
  /\ pc = "override"
  /\ LET override == load_yaml(overrideFile, DictV(<<>>))
     IN document' = deep_merge_config(document,
                                      IF is_dict(override) THEN override ELSE DictV(<<>>))
  /\ pc' = "script"
  /\ UNCHANGED exceptDocument

\* if override_script.strip(): config = apply_js_override(config, override_script)
\* An exception of apply_js_override ends the run.
ScriptOverride ==
  /\ pc = "script"
  /\ LET outcome == IF strip(scriptFile) # ""
                    THEN apply_js_override(document, scriptFile, scriptRun)
                    ELSE Return(document)
     IN /\ document' = outcome.config
        /\ error' = outcome.error
        /\ pc' = IF outcome.error = "" THEN "normalize" ELSE "aborted"
  /\ UNCHANGED <<pipelineInputs, configFile, backups, dedupVars, exceptPipeline>>

\* config = ensure_runtime_values(config)
Normalize ==
  /\ pc = "normalize"
  /\ document' = ensure_runtime_values(document, environ)
  /\ pc' = "sanitize"
  /\ UNCHANGED exceptDocument

\* config = sanitize_proxy_groups(config)
Sanitize ==
  /\ pc = "sanitize"
  /\ document' = sanitize_proxy_groups(document)
  /\ pc' = "filter"
  /\ UNCHANGED exceptDocument

\* config = maybe_disable_geoip_rules(config)
FilterRules ==
  /\ pc = "filter"
  /\ document' = maybe_disable_geoip_rules(document, environ)
  /\ pc' = "backup"
  /\ UNCHANGED exceptDocument

\* make_backup(config_file): nothing to copy, or the copy is made.
Backup ==
  /\ pc = "backup"
  /\ backups' = IF configFile = Absent THEN backups ELSE Append(backups, configFile)
  /\ pc' = "write"
  /\ UNCHANGED <<pipelineInputs, document, configFile, error, dedupVars, exceptPipeline>>

\* make_backup(config_file): shutil.copy2 raises, nothing catches it.
BackupFails ==
  /\ pc = "backup"
  /\ configFile # Absent
  /\ error' = "backup copy failed"
  /\ pc' = "aborted"
  /\ UNCHANGED <<pipelineInputs, document, configFile, backups, dedupVars, exceptPipeline>>

\* save_yaml(config_file, config): path.open("w") creates or truncates the file.
OpenConfigFile ==
  /\ pc = "write"
  /\ configFile' = EmptyFile
  /\ pc' = "dump"
  /\ UNCHANGED <<pipelineInputs, document, backups, error, dedupVars, exceptPipeline>>

\* save_yaml(config_file, config): yaml.safe_dump writes the document.
DumpConfig ==
  /\ pc = "dump"
  /\ configFile' = document
  /\ pc' = "done"
  /\ UNCHANGED <<pipelineInputs, document, backups, error, dedupVars, exceptPipeline>>

\* save_yaml(config_file, config): the write raises part-way (an OSError of
\* the file system); nothing catches it.
DumpFails ==
  /\ pc = "dump"
  /\ configFile' = PartialFile
  /\ error' = "write failed"
  /\ pc' = "aborted"
  /\ UNCHANGED <<pipelineInputs, document, backups, dedupVars, exceptPipeline>>

\* main, called a second time: merge_subscriptions starts over with the same
\* template, site policy, override document, script, environment and
\* subscriptions; config.yaml and the backup directory are as the first run
\* left them.
SecondRun ==
  /\ pc = "done"
  /\ firstDocument = Absent
  /\ firstDocument' = configFile
  /\ firstFailed' = (1..NumSubs) \ fetchedSubs
  /\ previousFile' = configFile
  /\ subIndex' = 0
  /\ merged_proxies' = <<>>
  /\ deduped' = <<>>
  /\ dedupStage' = "fetch"
  /\ failedSubs' = {}
  /\ fetchedSubs' = {}
  /\ document' = Absent
  /\ pc' = "compose"
  /\ error' = ""
  /\ UNCHANGED <<environ, templateFile, sitePolicyFile, overrideFile, scriptFile,
                 scriptRun, fetched, dedupedAgain, configFile, backups,
                 exceptPipeline>>

NextPipeline ==
  \/ ExtendMerged \/ FetchFails \/ CacheWriteFails \/ Deduplicate
  \/ ComposeTemplate \/ ApplyPolicy \/ ApplyOverride \/ ScriptOverride
  \/ Normalize \/ Sanitize \/ FilterRules
  \/ Backup \/ BackupFails \/ OpenConfigFile \/ DumpConfig \/ DumpFails
  \/ SecondRun

SpecPipeline == InitPipeline /\ [][NextPipeline]_vars

(***************************************************************************)
(* Claims about a pipeline run.                                            *)
(***************************************************************************)
\* The sandbox outcomes that are fatal: no entry point, an exception or a
\* non-zero exit, a returned array, scalar or null, no output, an output that
\* is no JSON object, the timeout, no node runtime.
FatalRuns ==
  {"no_main", "throws", "returns_array", "returns_scalar", "returns_null",
   "exits_silently", "writes_array", "logs_to_stdout", "hangs", "no_node"}

PersisterStages == {"backup", "write", "dump", "done"}

\* C1 (fatal sandbox outcomes abort before the Persister): in a run with a
\* non-blank transform script whose sandbox outcome is fatal, the run never
\* goes past the sandbox stage, no backup is created, and config.yaml keeps
\* the content it had when the run began.
C1_FatalScriptAbortsBeforePersister ==
  (strip(scriptFile) # "" /\ scriptRun \in FatalRuns) =>
    /\ pc \notin {"normalize", "sanitize", "filter"} \cup PersisterStages
    /\ backups = <<>>
    /\ configFile = previousFile

\* A run over an existing config.yaml that the timeout of the script has ended.
C1_Witness ==
  /\ strip(scriptFile) # "" /\ scriptRun = "hangs"
  /\ pc = "aborted" /\ error = "override.js execution timeout"
  /\ previousFile # Absent

\* The run is past the GroupSanitizer.
Sanitized ==
  \/ pc \in {"filter"} \cup PersisterStages
  \/ pc = "aborted" /\ error \in {"backup copy failed", "write failed"}

has_source(group) ==
  \/ is_list(dget(group, "proxies")) /\ dget(group, "proxies").l # <<>>
  \/ is_list(dget(group, "use")) /\ dget(group, "use").l # <<>>

\* C8 (group source invariant): after the GroupSanitizer, every proxy group
\* of the document has a non-empty list of members (proxies) or a non-empty
\* list of source references (use).
C8_GroupSourceInvariant ==
  Sanitized =>
    LET groups == list_or_empty(dget(document, "proxy-groups"))
    IN \A i \in 1..Len(groups) : has_source(groups[i])

\* C9 (runtime values forced): in the document a run has written to
\* config.yaml, allow-lan is true, bind-address is "*", external-controller
\* is the configured controller or 0.0.0.0:9090, and a configured secret and
\* configured listen ports are the configured values.
C9_RuntimeValuesForced ==
  pc = "done" =>
    LET controller == strip(env_get(environ.CLASH_EXTERNAL_CONTROLLER, ""))
        secret == env_get(environ.CLASH_SECRET, "")
        mixed_port == read_int_env(environ.CLASH_MIXED_PORT)
        socks_port == read_int_env(environ.CLASH_SOCKS_PORT)
    IN /\ dget(configFile, "allow-lan") = BoolV(TRUE)
       /\ dget(configFile, "bind-address") = StrV("*")
       /\ dget(configFile, "external-controller") =
            StrV(IF controller = "" THEN "0.0.0.0:9090" ELSE controller)
       /\ secret # "" => dget(configFile, "secret") = StrV(secret)
       /\ mixed_port # NoneV => dget(configFile, "mixed-port") = mixed_port
       /\ socks_port # NoneV => dget(configFile, "socks-port") = socks_port

\* A written document whose template, override document and script all set
\* the runtime fields to other values than the configured ones.
C9_Witness ==
  /\ pc = "done"
  /\ templateFile = ClosedTemplate /\ overrideFile = OverrideDocument
  /\ strip(scriptFile) # "" /\ scriptRun = "returns_rewritten"
  /\ environ.CLASH_SECRET = StrV("s3cret")
  /\ environ.CLASH_MIXED_PORT = StrV("7890")

\* C10 (backup failure is non-fatal): a run in which the copy of the existing
\* config.yaml to the backup directory failed has, when it ends, written its
\* document to config.yaml.
C10_BackupFailureNonFatal ==
  (error = "backup copy failed" /\ pc \in {"done", "aborted"}) =>
    configFile = document

(***************************************************************************)
(* SpecSystem: the merge-job launcher of the management API.  Requests and *)
(* the scheduler call start_merge_job; the runner thread of a started job  *)
(* runs merge.py in a subprocess and releases merge_lock when it is done.  *)
(* merge.py can also be run directly, outside the API process.             *)
(***************************************************************************)
MaxTriggers == 3

MaxDirect == 1

MaxPuts == 1

\* Mutant: the lock is taken whether or not it is held.
acquire_always(lock) == [acquired |-> TRUE, lock |-> TRUE]

\* merge_lock.acquire(blocking=False)
acquire_nonblocking(lock) == [acquired |-> ~lock, lock |-> TRUE]

\* "merge_and_reload" if do_reload else "merge"
action_name(do_reload) == IF do_reload THEN "merge_and_reload" ELSE "merge"

\* The entry append_schedule_history builds.  A time is written as the event
\* it is the time of.
HistoryEntry(trigger, do_reload, status, message, started_at) ==
  [trigger |-> trigger, action |-> action_name(do_reload), status |-> status,
   message |-> message, started_at |-> started_at]

\* Times: the start of the runner of job id, its end, the scheduler's
\* started_at for trigger id, and the next_run it computes then.
RunnerStart(id) == "runner start " \o ToString(id)

RunnerEnd(id) == "runner end " \o ToString(id)

SchedulerStart(id) == "scheduler start " \o ToString(id)

NextRun(id) == "next run " \o ToString(id)

default_schedule ==
  [enabled |-> FALSE, next_run |-> "null", last_run |-> "null", last_status |-> ""]

\* The scheduler thread in time.sleep(5): its copy of the schedule is dead, the
\* next iteration loads a new one.
SchedulerAsleep == [pc |-> "sleep", schedule |-> default_schedule, id |-> 0]

\* Mutant: every job is recorded as a success.
status_of_always_success(success) == "success"

\* "success" if success else "failed"
status_of(success) == IF success THEN "success" ELSE "failed"

\* start_merge_job as called by a handler: the lock is tried once; when it is
\* taken the runner thread is started.  response is what the caller answers.
StartMergeJob(trigger, do_reload, accepted, rejected) ==
  LET attempt == acquire_nonblocking(merge_lock)
      id == Len(triggers) + 1
  IN /\ Len(triggers) < MaxTriggers
     /\ merge_lock' = attempt.lock
     /\ triggers' = Append(triggers,
                           [trigger |-> trigger, do_reload |-> do_reload,
                            busy |-> merge_lock, started |-> attempt.acquired,
                            response |-> IF attempt.acquired THEN accepted ELSE rejected])
     /\ jobs' = IF attempt.acquired
                THEN (id :> [pc |-> "merging", success |-> FALSE, message |-> "unknown",
                             process |-> "running", reloads |-> 0]) @@ jobs
                ELSE jobs

\* POST /api/actions/merge
RunMerge ==
  /\ StartMergeJob("manual", FALSE, "merge launched", "merge already running")
  /\ UNCHANGED <<direct, history, schedule, scheduler, committed, exceptSystem>>

\* POST /api/actions/merge-and-reload
MergeAndReload ==
  /\ StartMergeJob("manual", TRUE, "merge+reload launched", "merge already running")
  /\ UNCHANGED <<direct, history, schedule, scheduler, committed, exceptSystem>>

\* put_schedule, the body of `with schedule_lock`, for a request body that
\* carries enabled only.
put_schedule(current, enabled) ==
  LET enabled_changed == enabled # current.enabled
      recalculated ==
        IF enabled /\ (enabled_changed \/ current.next_run = "null")
        THEN [current EXCEPT !.enabled = enabled, !.next_run = "put"]
        ELSE [current EXCEPT !.enabled = enabled]
  IN IF ~enabled THEN [recalculated EXCEPT !.next_run = "null"] ELSE recalculated

\* PUT /api/schedule
PutSchedule ==
  /\ Len(committed) < MaxPuts
  /\ \E enabled \in BOOLEAN :
       /\ schedule' = put_schedule(schedule, enabled)
       /\ committed' = Append(committed, put_schedule(schedule, enabled))
  /\ UNCHANGED <<merge_lock, triggers, jobs, direct, history, scheduler, exceptSystem>>

\* scheduler_loop: after the sleep, schedule = load_schedule() under
\* schedule_lock.
SchedulerLoad ==
  /\ scheduler.pc = "sleep"
  /\ scheduler' = [pc |-> "loaded", schedule |-> schedule, id |-> 0]
  /\ UNCHANGED <<merge_lock, triggers, jobs, direct, history, schedule, committed,
                 exceptSystem>>

\* scheduler_loop: the copy is disabled, or its next_run is still ahead.
SchedulerContinue ==
  /\ scheduler.pc = "loaded"
  /\ ~scheduler.schedule.enabled \/ scheduler.schedule.next_run # "null"
  /\ scheduler' = SchedulerAsleep
  /\ UNCHANGED <<merge_lock, triggers, jobs, direct, history, schedule, committed,
                 exceptSystem>>

\* scheduler_loop: the copy is enabled and has no next_run; it is given one
\* and saved.
SchedulerArm ==
  /\ scheduler.pc = "loaded"
  /\ scheduler.schedule.enabled
  /\ scheduler.schedule.next_run = "null"
  /\ schedule' = [scheduler.schedule EXCEPT !.next_run = "armed"]
  /\ scheduler' = SchedulerAsleep
  /\ UNCHANGED <<merge_lock, triggers, jobs, direct, history, committed, exceptSystem>>

\* scheduler_loop: the copy is enabled and due; start_merge_job is called.
SchedulerDue ==
  /\ scheduler.pc = "loaded"
  /\ scheduler.schedule.enabled
  /\ scheduler.schedule.next_run # "null"
  /\ StartMergeJob("scheduler", TRUE, "started", "skipped_busy")
  /\ scheduler' = [scheduler EXCEPT !.pc = "launched", !.id = Len(triggers) + 1]
  /\ UNCHANGED <<direct, history, schedule, committed, exceptSystem>>

\* scheduler_loop: last_run, last_status and next_run are set in the copy,
\* and the copy is saved.
SchedulerSave ==
  /\ scheduler.pc = "launched"
  /\ LET started == triggers[scheduler.id].started
     IN /\ schedule' =
             [scheduler.schedule EXCEPT
                !.last_run = SchedulerStart(scheduler.id),
                !.last_status = IF started THEN "started" ELSE "skipped_busy",
                !.next_run = NextRun(scheduler.id)]
        /\ scheduler' = IF started THEN SchedulerAsleep
                         ELSE [scheduler EXCEPT !.pc = "skipped", !.schedule = schedule']
  /\ UNCHANGED <<merge_lock, triggers, jobs, direct, history, committed, exceptSystem>>

\* scheduler_loop: the history item of a trigger that found the lock held.
SchedulerRecordSkip ==
  /\ scheduler.pc = "skipped"
  /\ history' =
       Append(history,
              HistoryEntry("scheduler", TRUE, "skipped_busy",
                           "skip because previous merge task is running",
                           SchedulerStart(scheduler.id)))
  /\ scheduler' = SchedulerAsleep
  /\ UNCHANGED <<merge_lock, triggers, jobs, direct, schedule, committed, exceptSystem>>

\* What subprocess.run of merge.py can come to: TimeoutExpired after 240 s,
\* another exception (the interpreter cannot be launched), a non-zero exit,
\* exit code 0.
ProcessOutcomes == {"timeout", "error", "exit_nonzero", "exit_zero"}

JobResult(success, message, process, reloads) ==
  [success |-> success, message |-> message, process |-> process, reloads |-> reloads]

\* Mutant: the exit code of merge.py is not looked at before the reload.
run_merge_job_ignoring_exit_code(do_reload, process, reload_ok) ==
  IF process = "timeout" THEN JobResult(FALSE, "merge timeout", process, 0)
  ELSE IF process = "error" THEN JobResult(FALSE, "merge error", process, 0)
  ELSE IF do_reload
    THEN IF reload_ok
           THEN JobResult(TRUE, "merge and reload success", process, 1)
           ELSE JobResult(FALSE, "merge success but reload failed", process, 1)
  ELSE IF process = "exit_nonzero" THEN JobResult(FALSE, "merge failed rc", process, 0)
  ELSE JobResult(TRUE, "merge success", process, 0)

\* run_merge_job: process is what subprocess.run came to, reload_ok what
\* reload_clash returns when it is called; reloads counts its calls.
run_merge_job(do_reload, process, reload_ok) ==
  IF process = "timeout" THEN JobResult(FALSE, "merge timeout", process, 0)
  ELSE IF process = "error" THEN JobResult(FALSE, "merge error", process, 0)
  ELSE IF process = "exit_nonzero" THEN JobResult(FALSE, "merge failed rc", process, 0)
  ELSE IF do_reload
    THEN IF reload_ok
           THEN JobResult(TRUE, "merge and reload success", process, 1)
           ELSE JobResult(FALSE, "merge success but reload failed", process, 1)
  ELSE JobResult(TRUE, "merge success", process, 0)

\* The results run_merge_job can return.
MergeJobResults(do_reload) ==
  { run_merge_job(do_reload, process, reload_ok) :
      process \in ProcessOutcomes, reload_ok \in BOOLEAN }

\* runner: run_merge_job returns; the merge.py subprocess has ended.
RunMergeJob ==
  /\ \E id \in DOMAIN jobs :
       /\ jobs[id].pc = "merging"
       /\ \E result \in MergeJobResults(triggers[id].do_reload) :
            jobs' = [jobs EXCEPT ![id] = [pc |-> "finally", success |-> result.success,
                                          message |-> result.message,
                                          process |-> result.process,
                                          reloads |-> result.reloads]]
  /\ UNCHANGED <<merge_lock, triggers, direct, history, schedule, scheduler, committed,
                 exceptSystem>>

\* runner, the finally block: append_schedule_history.  When it raises
\* (save_json cannot write), the exception leaves the finally block and the
\* thread ends there.
RecordHistory ==
  /\ \E id \in DOMAIN jobs, written \in BOOLEAN :
       /\ jobs[id].pc = "finally"
       /\ history' =
            IF written
            THEN Append(history,
                        HistoryEntry(triggers[id].trigger, triggers[id].do_reload,
                                     status_of(jobs[id].success), jobs[id].message,
                                     RunnerStart(id)))
            ELSE history
       /\ jobs' = [jobs EXCEPT ![id].pc =
                     IF ~written THEN "crashed"
                     ELSE IF triggers[id].trigger = "scheduler" THEN "schedule"
                     ELSE "release"]
  /\ UNCHANGED <<merge_lock, triggers, direct, schedule, scheduler, committed,
                 exceptSystem>>

\* runner, the finally block of a scheduled job: the schedule is loaded,
\* given last_run and last_status, and saved, under schedule_lock.  When the
\* save raises, the thread ends there.
UpdateSchedule ==
  /\ \E id \in DOMAIN jobs, written \in BOOLEAN :
       /\ jobs[id].pc = "schedule"
       /\ schedule' =
            IF written
            THEN [schedule EXCEPT !.last_run = RunnerEnd(id),
                                  !.last_status = status_of(jobs[id].success)]
            ELSE schedule
       /\ jobs' = [jobs EXCEPT ![id].pc = IF written THEN "release" ELSE "crashed"]
  /\ UNCHANGED <<merge_lock, triggers, direct, history, scheduler, committed,
                 exceptSystem>>

\* runner, the end of the finally block: merge_lock.release().
ReleaseLock ==
  /\ \E id \in DOMAIN jobs :
       /\ jobs[id].pc = "release"
       /\ jobs' = [jobs EXCEPT ![id].pc = "done"]
  /\ merge_lock' = FALSE
  /\ UNCHANGED <<triggers, direct, history, schedule, scheduler, committed,
                 exceptSystem>>

\* python merge.py merge, run by hand: main calls merge_subscriptions.
DirectStart ==
  /\ direct < MaxDirect
  /\ direct' = direct + 1
  /\ UNCHANGED <<merge_lock, triggers, jobs, history, schedule, scheduler, committed,
                 exceptSystem>>

\* The process of a direct run exits.
DirectExit ==
  /\ direct > 0
  /\ direct' = direct - 1
  /\ UNCHANGED <<merge_lock, triggers, jobs, history, schedule, scheduler, committed,
                 exceptSystem>>

\* No job yet; schedule.json is the default record, or the record that a file
\* holding enabled: true alone is loaded as.
InitSystem ==
  /\ merge_lock = FALSE
  /\ triggers = <<>>
  /\ jobs = <<>>
  /\ direct = 0
  /\ history = <<>>
  /\ schedule \in {default_schedule, [default_schedule EXCEPT !.enabled = TRUE]}
  /\ scheduler = SchedulerAsleep
  /\ committed = <<>>
  /\ RulesIdle /\ DedupIdle /\ OverrideIdle /\ PipelineIdle

NextSystem ==
  \/ RunMerge \/ MergeAndReload \/ PutSchedule
  \/ SchedulerLoad \/ SchedulerContinue \/ SchedulerArm
  \/ SchedulerDue \/ SchedulerSave \/ SchedulerRecordSkip
  \/ RunMergeJob \/ RecordHistory \/ UpdateSchedule \/ ReleaseLock
  \/ DirectStart \/ DirectExit

SpecSystem == InitSystem /\ [][NextSystem]_vars

(***************************************************************************)
(* Claims about the launcher.                                              *)
(***************************************************************************)
\* The executions of merge_subscriptions in flight: the subprocesses of the
\* runners and the direct runs.
InFlight == Cardinality({id \in DOMAIN jobs : jobs[id].pc = "merging"}) + direct

\* C2 (one pipeline execution system-wide): at most one execution of
\* merge_subscriptions is in flight, whatever the interleaving of manual
\* triggers, scheduler triggers and direct runs of merge.py.
C2_AtMostOneExecution == InFlight <= 1

\* C3 (a busy trigger is rejected, never queued): a trigger handled while
\* merge_lock was held did not start a job, was answered "merge already
\* running" (manual) or recorded as skipped_busy (scheduler), and no runner
\* exists for it at any later time.
C3_BusyTriggerRejected ==
  \A id \in 1..Len(triggers) :
    triggers[id].busy =>
      /\ ~triggers[id].started
      /\ triggers[id].response =
           (IF triggers[id].trigger = "manual" THEN "merge already running"
            ELSE "skipped_busy")
      /\ id \notin DOMAIN jobs

\* A manual and a scheduled trigger were rejected while a job ran; the job is
\* over, the lock is free again, and only the first trigger ever had a runner.
C3_Witness ==
  /\ Len(triggers) = 3
  /\ triggers[2].busy /\ triggers[2].trigger = "manual"
  /\ triggers[3].busy /\ triggers[3].trigger = "scheduler"
  /\ ~merge_lock
  /\ DOMAIN jobs = {1} /\ jobs[1].pc = "done"

(***************************************************************************)
(* Claims about the Persister.                                             *)
(***************************************************************************)
\* C11 (atomic write): whoever reads config.yaml during a run finds either
\* the complete document that was there when the run began or the complete
\* new document, at every instant, also when the write fails part-way.
C11_AtomicWrite ==
  \/ configFile = previousFile
  \/ pc = "done" /\ configFile = document

(***************************************************************************)
(* Claims about subscription failures.                                     *)
(***************************************************************************)
FatalScript == strip(scriptFile) # "" /\ scriptRun \in FatalRuns

\* C12 (subscription failures never abort the run): when the fetch loop is
\* over, the nodes of every subscription whose fetch returned are merged, in
\* declaration order, and every subscription not logged as failed is among
\* them; a run in which fetches failed is aborted only by a
\* fatal transform script or inside the Persister, never by the fetch; a run
\* in which no fetch returned and that has written its document has written
\* one whose proxies list is empty (no other layer of the model adds nodes).
C12_SubscriptionFailuresTolerated ==
  /\ subIndex = NumSubs =>
       /\ (1..NumSubs) \ failedSubs \subseteq fetchedSubs
       /\ merged_proxies =
            Concat([i \in 1..NumSubs |-> IF i \in fetchedSubs THEN fetched[i] ELSE <<>>])
  /\ (failedSubs # {} /\ pc = "aborted") =>
       \/ FatalScript /\ error \notin {"", "fetch failed"}
       \/ error \in {"backup copy failed", "write failed"}
  /\ (fetchedSubs = {} /\ subIndex = NumSubs /\ pc = "done") =>
       /\ failedSubs = 1..NumSubs
       /\ configFile = document
       /\ dget(configFile, "proxies") = ListV(<<>>)

\* Every subscription failed and the document is written, without nodes.
C12_Witness ==
  /\ failedSubs = 1..NumSubs
  /\ fetchedSubs = {}
  /\ pc = "done"
  /\ dget(configFile, "proxies") = ListV(<<>>)
  /\ \E i \in 1..NumSubs : fetched[i] # <<>>

(***************************************************************************)
(* Claims about the order of merged rules.                                 *)
(***************************************************************************)
\* The items of a list at the positions no earlier equal item precedes.
FirstOccurrences(list) ==
  LET kept == { i \in 1..Len(list) : \A j \in 1..(i - 1) : list[j] # list[i] }
  IN [k \in 1..Cardinality(kept) |-> list[Nth(kept, k)]]

\* C13 (rule insertion ordering): a rule merge yields the new rules in their
\* order, then the existing non-terminal rules in their order, then the
\* existing terminal (MATCH,) rules, every rule at its first occurrence only;
\* [DOMAIN,example.com,DIRECT; MATCH,PROXY] merged with [DOMAIN,foo.com,AI]
\* is [DOMAIN,foo.com,AI; DOMAIN,example.com,DIRECT; MATCH,PROXY].
C13_RuleInsertionOrder ==
  /\ rulesStage \in {"policy", "override"} =>
       LET existing == SelectSeq(rulesBase, is_rule)
           incoming == SelectSeq(rulesNew, is_rule)
       IN rules = FirstOccurrences(incoming
                                   \o SelectSeq(existing, LAMBDA r : ~is_match(r))
                                   \o SelectSeq(existing, is_match))
  /\ place_rules_before_match(
       <<StrV("DOMAIN,example.com,DIRECT"), StrV("MATCH,PROXY")>>,
       <<StrV("DOMAIN,foo.com,AI")>>)
     = <<StrV("DOMAIN,foo.com,AI"), StrV("DOMAIN,example.com,DIRECT"),
         StrV("MATCH,PROXY")>>

\* A merge with a new rule ahead of the existing ones, an existing rule named
\* again by the new list, and an existing terminal rule moved to the end.
C13_Witness ==
  /\ rulesStage = "policy"
  /\ rulesBase = <<StrV("MATCH,PROXY"), StrV("DOMAIN,a.com,DIRECT")>>
  /\ rulesNew = <<StrV("MATCH,DIRECT"), StrV("DOMAIN,a.com,DIRECT")>>
  /\ rules = <<StrV("MATCH,DIRECT"), StrV("DOMAIN,a.com,DIRECT"), StrV("MATCH,PROXY")>>

\* C19 (no rule after a terminal rule): in the output of a rule merge no rule
\* that does not start with "MATCH," stands at a later position than a rule
\* that starts with "MATCH,".
C19_NoRuleAfterTerminal ==
  rulesStage \in {"policy", "override"} =>
    \A i, j \in 1..Len(rules) : (i < j /\ is_match(rules[i])) => is_match(rules[j])

(***************************************************************************)
(* Claims about the renaming pass of the Deduplicator.                     *)
(***************************************************************************)
\* C14 (dedup idempotence): the Deduplicator run on its own output returns
\* the same nodes, in the same order, with the same names.
C14_DedupIdempotent == dedupStage = "again" => dedupedAgain = deduped

\* A second pass over an output in which the first pass dropped a node and
\* renamed another.
C14_Witness ==
  /\ dedupStage = "again"
  /\ Len(deduped) < Len(merged_proxies)
  /\ \E i \in 1..Len(deduped) : NodeNames(deduped)[i] = StrV("a_1")

\* The name the renaming pass reads from a node.
CarriedName(proxy) ==
  LET given == dget(proxy, "name")
  IN strip(py_str(IF truthy(given) THEN given ELSE StrV("node")))

\* The nodes the Deduplicator keeps, as they were fetched.
KeptInput ==
  LET input == Concat(fetched)
      kept == FirstCarriers(input)
  IN [k \in 1..Cardinality(kept) |-> input[Nth(kept, k)]]

\* The names in use when the k-th kept node is named: the carried and the
\* assigned names of the kept nodes before it.
UsedBefore(k) ==
  { CarriedName(KeptInput[j]) : j \in 1..(k - 1) }
    \cup { dget(deduped[j], "name").s : j \in 1..(k - 1) }

\* C15 (smallest free suffix): a kept node whose name is already in use is
\* named <name>_<n> with n the smallest integer >= 1 such that <name>_<n> is
\* neither the carried nor the assigned name of an earlier kept node; two
\* nodes named us-1 with different identities come out as us-1 and us-1_1.
C15_SmallestFreeSuffix ==
  /\ dedupStage = "done" =>
       \A k \in 1..Len(deduped) :
         LET name == CarriedName(KeptInput[k])
             assigned == dget(deduped[k], "name").s
         IN name \in UsedBefore(k) =>
              \E n \in 1..Len(deduped) :
                /\ assigned = name \o "_" \o ToString(n)
                /\ assigned \notin UsedBefore(k)
                /\ \A m \in 1..(n - 1) : (name \o "_" \o ToString(m)) \in UsedBefore(k)
  /\ NodeNames(deduplicate_proxies(<<Node(StrV("us-1"), StrV("s1"), IntV(443)),
                                     Node(StrV("us-1"), StrV("s2"), IntV(443))>>))
     = <<StrV("us-1"), StrV("us-1_1")>>

\* A node named a comes after a node named a and a node named a_1: it is
\* named a_2.
C15_Witness ==
  /\ dedupStage = "done"
  /\ \E k \in 1..Len(deduped) :
       /\ CarriedName(KeptInput[k]) = "a"
       /\ "a_1" \in UsedBefore(k)
       /\ dget(deduped[k], "name") = StrV("a_2")

\* C20 (the first carrier keeps its name): a kept node whose carried name no
\* earlier kept node carries has that name in the output.
C20_FirstCarrierKeepsName ==
  dedupStage = "done" =>
    \A k \in 1..Len(deduped) :
      (\A j \in 1..(k - 1) : CarriedName(KeptInput[j]) # CarriedName(KeptInput[k]))
        => dget(deduped[k], "name") = StrV(CarriedName(KeptInput[k]))

MarkedGroups(config) ==
  LET groups == dget(config, "proxy-groups")
  IN IF is_dict(config) /\ is_list(groups)
       THEN {i \in 1..Len(groups.l) :
               is_dict(groups.l[i]) /\ "use_all_proxies" \in DOMAIN groups.l[i].d}
       ELSE {}

\* C18 (marker never emitted): no group of the written document carries the
\* key use_all_proxies, whether the template, the site policy or the override
\* document supplied the group.
C18_MarkerNeverEmitted ==
  pc = "done" => MarkedGroups(configFile) = {}

(***************************************************************************)
(* Claims about the reload of the proxy engine.                            *)
(***************************************************************************)
\* C17 (reload only after a successful run): a merge job calls reload_clash
\* at most once, and only when it was started with reload and merge.py has
\* exited with code 0; a job whose run timed out, could not be launched or
\* exited non-zero, and a job started without reload, makes no reload request.
C17_ReloadOnlyAfterSuccess ==
  \A id \in DOMAIN jobs :
    /\ jobs[id].reloads \in {0, 1}
    /\ jobs[id].reloads = 1 =>
         /\ triggers[id].do_reload
         /\ jobs[id].process = "exit_zero"
    /\ jobs[id].pc = "merging" => jobs[id].reloads = 0

C17_Witness ==
  /\ \E id \in DOMAIN jobs :
       jobs[id].pc = "done" /\ jobs[id].reloads = 1 /\ triggers[id].do_reload
  /\ \E id \in DOMAIN jobs :
       /\ jobs[id].pc = "done" /\ triggers[id].do_reload
       /\ jobs[id].process \in {"timeout", "error", "exit_nonzero"}
       /\ jobs[id].reloads = 0
  /\ \E id \in DOMAIN jobs :
       /\ jobs[id].pc = "done" /\ ~triggers[id].do_reload
       /\ jobs[id].process = "exit_zero" /\ jobs[id].reloads = 0

(***************************************************************************)
(* Claims about the TemplateComposer.                                      *)
(***************************************************************************)
Range(list) == {list[i] : i \in 1..Len(list)}

\* The dict entries of the template's group list.
TemplateGroups ==
  SelectSeq(list_or_empty(get(dget(load_yaml(templateFile, build_default_template),
                                   "proxy-groups"),
                              ListV(<<>>))),
            is_dict)

Marked(group) == truthy(get(dget(group, "use_all_proxies"), BoolV(FALSE)))

\* C24 (TemplateComposer): right after apply_subscription_data the proxies
\* field is the deduplicated node list, whatever the template listed; a
\* template group with the marker set has its own members followed by the
\* node names not among them, and no marker; a group without the marker is
\* unchanged; a template without groups yields the single select group PROXY
\* with DIRECT followed by the node names; the other fields are the
\* template's.
C24_TemplateComposer ==
  pc = "policy" =>
    LET template == load_yaml(templateFile, build_default_template)
        node_names == [i \in 1..Len(deduped) |-> dget(deduped[i], "name")]
        result == dget(document, "proxy-groups").l
    IN /\ dget(document, "proxies") = ListV(deduped)
       /\ \A key \in (DOMAIN template.d) \ {"proxies", "proxy-groups"} :
            dget(document, key) = template.d[key]
       /\ TemplateGroups = <<>> =>
            result = <<DictV([name |-> StrV("PROXY"), type |-> StrV("select"),
                              proxies |-> ListV(<<StrV("DIRECT")>> \o node_names)])>>
       /\ TemplateGroups # <<>> =>
            /\ Len(result) = Len(TemplateGroups)
            /\ \A i \in 1..Len(result) :
                 LET group == TemplateGroups[i]
                     own == list_or_empty(get(dget(group, "proxies"), ListV(<<>>)))
                 IN IF Marked(group)
                    THEN /\ dget(result[i], "proxies") =
                              ListV(own \o SelectSeq(node_names,
                                                     LAMBDA n : n \notin Range(own)))
                         /\ dpop(result[i], "proxies") =
                              dpop(dpop(group, "proxies"), "use_all_proxies")
                    ELSE result[i] = dpop(group, "use_all_proxies")

C24_Witness ==
  /\ pc = "policy"
  /\ templateFile = Absent
  /\ Len(deduped) = 2
  /\ dget(dget(document, "proxy-groups").l[1], "proxies") =
       Members(<<"AUTO", "DIRECT", "a", "a_1">>)

(***************************************************************************)
(* Claims about the GroupSanitizer.                                        *)
(***************************************************************************)
\* The groups of a document: the dict entries of its proxy-groups list.
GroupsOf(config) ==
  SelectSeq(list_or_empty(get(dget(config, "proxy-groups"), ListV(<<>>))), is_dict)

WithoutSources(group) == dpop(dpop(group, "proxies"), "use")

\* C27 (the sanitizer keeps the groups): the sanitizer stage leaves as many
\* groups as it found, in the same order, and every field of a group other
\* than proxies and use, the name included, as it was.
C27_SanitizerKeepsGroups ==
  [][(pc = "sanitize" /\ pc' = "filter") =>
       /\ Len(GroupsOf(document')) = Len(GroupsOf(document))
       /\ \A i \in 1..Len(GroupsOf(document)) :
            WithoutSources(GroupsOf(document')[i]) = WithoutSources(GroupsOf(document)[i])]_vars

C27_Witness ==
  /\ pc = "filter"
  /\ \E i \in 1..Len(GroupsOf(document)) :
       /\ dget(GroupsOf(document)[i], "name") = StrV("EMPTY")
       /\ dget(GroupsOf(document)[i], "proxies") =
            ListV(unique_items(list_proxy_names(document) \o <<StrV("DIRECT")>>))
  /\ Len(GroupsOf(document)) >= 4

(***************************************************************************)
(* Claims about the RuleFilter.                                            *)
(***************************************************************************)
\* The text of a rule before its first comma; "" when it has no comma.
RECURSIVE CategoryToken(_, _)
CategoryToken(text, i) ==
  IF i > Len(text) THEN ""
  ELSE IF SubSeq(text, i, i) = "," THEN SubSeq(text, 1, i - 1)
  ELSE CategoryToken(text, i + 1)

IsGeoCategory(rule) ==
  rule.k = "str" /\ upper(CategoryToken(lstrip(rule.s), 1)) = "GEOIP"

RulesOf(config) == list_or_empty(get(dget(config, "rules"), ListV(<<>>)))

\* C29 (RuleFilter): with CLASH_DISABLE_GEOIP set, the filter stage leaves the
\* rules whose category is not GEOIP, in whatever case it is written, in their
\* order, a last MATCH rule stays last, and every other field is as it was;
\* without the flag the document is as it was.
C29_RuleFilter ==
  [][(pc = "filter" /\ pc' = "backup") =>
       IF env_flag(environ.CLASH_DISABLE_GEOIP)
       THEN /\ RulesOf(document') =
                 SelectSeq(RulesOf(document), LAMBDA rule : ~IsGeoCategory(rule))
            /\ dpop(document', "rules") = dpop(document, "rules")
            /\ (RulesOf(document) # <<>>
                  /\ is_match(RulesOf(document)[Len(RulesOf(document))])) =>
                 RulesOf(document')[Len(RulesOf(document'))] =
                   RulesOf(document)[Len(RulesOf(document))]
       ELSE document' = document]_vars

C29_Witness ==
  /\ pc = "backup"
  /\ env_flag(environ.CLASH_DISABLE_GEOIP)
  /\ templateFile = ClosedTemplate
  /\ overrideFile = OverrideDocument
  /\ \A i \in 1..Len(RulesOf(document)) : ~IsGeoCategory(RulesOf(document)[i])
  /\ is_match(RulesOf(document)[Len(RulesOf(document))])

(***************************************************************************)
(* Claims about the precedence of the rule layers.                         *)
(***************************************************************************)
NoScript == strip(scriptFile) = ""

TemplateInput == load_yaml(templateFile, build_default_template)

PolicyInput ==
  load_yaml(sitePolicyFile, DictV([groups |-> ListV(<<>>), rules |-> ListV(<<>>)]))

OverrideInput ==
  LET override == load_yaml(overrideFile, DictV(<<>>))
  IN IF is_dict(override) THEN override ELSE DictV(<<>>)

\* The rules a layer brings: the non-blank strings of its rule list.
LayerRules(config) == SelectSeq(RulesOf(config), is_rule)

InjectedRules == LayerRules(OverrideInput) \o LayerRules(PolicyInput)

NoInjectedMatch == \A i \in 1..Len(InjectedRules) : ~is_match(InjectedRules[i])

\* Override rules, policy rules, the template's non-terminal rules, the
\* template's terminal rules; a repeated rule stays where it came first.
LayeredRules ==
  FirstOccurrences(LayerRules(OverrideInput) \o LayerRules(PolicyInput)
                     \o SelectSeq(LayerRules(TemplateInput), LAMBDA r : ~is_match(r))
                     \o SelectSeq(LayerRules(TemplateInput), is_match))

\* C28 as stated (layer precedence of rules): in a run without transform
\* script and without MATCH among the injected rules, the written rule list is
\* the override rules, the policy rules, the template's non-terminal rules and
\* the template's terminal rules, in this order.
C28_LayerPrecedenceAsStated ==
  (pc = "done" /\ NoScript /\ NoInjectedMatch) => RulesOf(configFile) = LayeredRules

\* C28 amended (layer precedence of rules): in such a run the written rule
\* list is that list when CLASH_DISABLE_GEOIP is not set, and that list
\* without its GEOIP rules when the flag is set.
C28_LayerPrecedence ==
  (pc = "done" /\ NoScript /\ NoInjectedMatch) =>
    RulesOf(configFile) =
      IF env_flag(environ.CLASH_DISABLE_GEOIP)
      THEN SelectSeq(LayeredRules, LAMBDA rule : ~IsGeoCategory(rule))
      ELSE LayeredRules

C28_Witness ==
  /\ pc = "done" /\ NoScript /\ NoInjectedMatch
  /\ templateFile = ClosedTemplate
  /\ sitePolicyFile = SitePolicy
  /\ overrideFile = OverrideDocument
  /\ ~env_flag(environ.CLASH_DISABLE_GEOIP)
  /\ RulesOf(configFile) =
       Members(<<"geoip,US,PROXY", "DOMAIN-SUFFIX,openai.com,AI", "GEOIP,CN,DIRECT",
                 "MATCH,MANUAL">>).l

(***************************************************************************)
(* Claims about what a failed subscription contributes.                    *)
(***************************************************************************)
\* C26 (a failed subscription contributes nothing): when the fetch loop is
\* over, merged_proxies holds all the nodes of every subscription not logged
\* as failed and no node of a subscription logged as failed, whichever step
\* of its processing raised.
C26_FailedContributesNothing ==
  subIndex = NumSubs =>
    merged_proxies =
      Concat([i \in 1..NumSubs |-> IF i \in failedSubs THEN <<>> ELSE fetched[i]])

(***************************************************************************)
(* Claims about the end of a merge job and about the schedule record.      *)
(***************************************************************************)
\* The positions of a runner thread that is still running.
LiveStages == {"merging", "finally", "schedule", "release"}

\* C21 (every started job releases the run lock): merge_lock is held only
\* while the runner thread that took it is still running, whatever the merge
\* subprocess came to and also when the history entry or the schedule record
\* cannot be written at the end of the job.
C21_LockReleasedByEveryJob ==
  merge_lock => \E id \in DOMAIN jobs : jobs[id].pc \in LiveStages

\* C22 (a committed schedule change is not overwritten by the scheduler): once
\* a PUT /api/schedule has returned, schedule.json has the enabled value that
\* PUT saved, and next_run null when it disabled the schedule, until another
\* PUT.
C22_PutNotOverwritten ==
  committed # <<>> =>
    LET saved == committed[Len(committed)]
    IN /\ schedule.enabled = saved.enabled
       /\ ~saved.enabled => schedule.next_run = "null"

\* The triggers of the scheduler that started a job.
ScheduledJobs == {id \in DOMAIN jobs : triggers[id].trigger = "scheduler"}

\* C25 (the outcome of a scheduled job stays in the schedule record): when a
\* job the scheduler started has updated the schedule record and the
\* scheduler has made no later trigger, schedule.json holds the job's outcome
\* as last_status and its end time as last_run.
C25_OutcomeNotReplaced ==
  \A id \in ScheduledJobs :
    (/\ jobs[id].pc \in {"release", "done"}
     /\ \A later \in (id + 1)..Len(triggers) : triggers[later].trigger # "scheduler") =>
      /\ schedule.last_status = status_of(jobs[id].success)
      /\ schedule.last_run = RunnerEnd(id)

\* The history entries of the runner of job id, and those of the scheduler
\* for trigger id.
EntriesOfJob(id) == SelectSeq(history, LAMBDA e : e.started_at = RunnerStart(id))

EntriesOfSkip(id) == SelectSeq(history, LAMBDA e : e.started_at = SchedulerStart(id))

\* The triggers the scheduler made that found the lock held.
SkippedTriggers ==
  {id \in 1..Len(triggers) : triggers[id].trigger = "scheduler" /\ ~triggers[id].started}

\* What the history holds for the jobs whose runner is at one of the given
\* positions past the history step, and for every other trigger.
HistoryEntries(recorded) ==
  /\ \A id \in DOMAIN jobs :
       /\ jobs[id].pc \in {"merging", "finally"} => EntriesOfJob(id) = <<>>
       /\ jobs[id].pc \in recorded =>
            EntriesOfJob(id) =
              <<HistoryEntry(triggers[id].trigger, triggers[id].do_reload,
                             IF jobs[id].success THEN "success" ELSE "failed",
                             jobs[id].message, RunnerStart(id))>>
       /\ Len(EntriesOfJob(id)) <= 1
       /\ EntriesOfSkip(id) = <<>>
  /\ \A id \in SkippedTriggers :
       /\ EntriesOfJob(id) = <<>>
       /\ IF scheduler.id = id
          THEN /\ EntriesOfSkip(id) = <<>>
               /\ scheduler.pc = "skipped" =>
                    /\ scheduler.schedule.next_run = NextRun(id)
                    /\ scheduler.schedule.last_status = "skipped_busy"
          ELSE /\ Len(EntriesOfSkip(id)) = 1
               /\ EntriesOfSkip(id)[1].status = "skipped_busy"
  /\ \A id \in (1..Len(triggers)) \ (DOMAIN jobs \cup SkippedTriggers) :
       EntriesOfJob(id) = <<>> /\ EntriesOfSkip(id) = <<>>
  /\ \A k \in 1..Len(history) :
       \E id \in 1..Len(triggers) :
         history[k].started_at \in {RunnerStart(id), SchedulerStart(id)}

====
